---- MODULE Spec2Model ----
(***************************************************************************)
(* A model of the Oura integration's polling core:                         *)
(*   - OuraApiClient._request / _paginated_request / clear_cache           *)
(*     (oura_full/api.py): response cache, retry on 429 and timeout,       *)
(*     401 / 404 handling;                                                 *)
(*   - OuraDataUpdateCoordinator._async_update_data and its per-category   *)
(*     fetch coroutines (oura_full/coordinator.py).                        *)
(* The specifications share the module and its variables: SpecClient      *)
(* drives _request alone (clock in seconds), Spec the coordinator's        *)
(* refresh cycle, SpecPages one _paginated_request against a paged server, *)
(* SpecRate the rate-limit check that precedes a request, SpecDerived the  *)
(* derived metrics of a refreshed data set and the cleanup pass.           *)
(***************************************************************************)
EXTENDS Integers, Sequences, FiniteSets, TLC

VARIABLES
    now,            \* wall clock, seconds (datetime.now())
    cache,          \* OuraApiClient._cache        : key -> body | NoEntry
    cache_expiry,   \* OuraApiClient._cache_expiry : key -> time | NoEntry
    rq,             \* the _request call in progress (one logical request)
    okAt,           \* history: per key, when the last 2xx arrived since the last clear_cache
    okBody,         \* history: per key, the body of that 2xx
    lists,          \* the coordinator's record lists: attribute name -> list
    update_errors,  \* OuraDataUpdateCoordinator.update_errors
    wellness_phase, \* OuraDataUpdateCoordinator.wellness_phase
    last_update,    \* OuraDataUpdateCoordinator.last_update (the poll that set it)
    tick,           \* number of the current poll (the day it asks for)
    cyc,            \* the _async_update_data call in progress
    outcome,        \* how the last _async_update_data call ended
    returned,       \* the data dict it returned
    faults,         \* history: fetches so far that were not answered with fresh data
    failStreak,     \* history: update-failed cycles in a row up to now
    pg,             \* the _paginated_request call in progress, and the server's pages
    rate_limit_remaining,   \* OuraApiClient._rate_limit_remaining
    rate_limit_reset,       \* OuraApiClient._rate_limit_reset, seconds
    rl,             \* the rate-limit check of the _request last entered
    circadian_alignment,    \* OuraDataUpdateCoordinator.circadian_alignment
    trends,         \* OuraDataUpdateCoordinator.trends
    predictions,    \* OuraDataUpdateCoordinator.predictions
    enable_ai,      \* OuraDataUpdateCoordinator.enable_ai
    dm,             \* the _calculate_derived_metrics call and the data it was given
    cl,             \* history: the cleanup passes since the lists were stored
    wh,             \* the OuraWebhookHandler, its refresh task and its last notification
    entry,          \* the config entry: its state and what hass.data holds for it
    mq              \* the OuraMqttBridge and its periodic publishing task

clientVars == <<now, cache, cache_expiry, rq, okAt, okBody>>

coordVars ==
    <<lists, update_errors, wellness_phase, last_update, tick, cyc, outcome,
      returned, faults, failStreak>>

pageVars == <<pg>>

rateVars == <<rate_limit_remaining, rate_limit_reset, rl>>

derivedVars == <<circadian_alignment, trends, predictions, enable_ai, dm>>

cleanupVars == <<cl>>

entryVars == <<wh, entry, mq>>

\* what the webhook handler leaves alone
notWebhookVars ==
    <<clientVars, coordVars, pageVars, rateVars, derivedVars, cleanupVars, entry, mq>>

\* what the API client's and the coordinator's polling actions leave alone
auxVars == <<pageVars, rateVars, derivedVars, cleanupVars, entryVars>>

\* what the derived metrics and the cleanup leave alone
cycleVars ==
    <<update_errors, last_update, tick, cyc, outcome, returned, faults, failStreak>>

\* what the derived metrics leave alone, the lists and the phase apart
notDerivedVars == <<clientVars, cycleVars, pageVars, rateVars, cleanupVars, entryVars>>

\* what a paginated fetch leaves alone
notPageVars == <<clientVars, coordVars, rateVars, derivedVars, cleanupVars, entryVars>>

\* what the rate-limit check leaves alone, the clock apart
notRateVars ==
    <<cache, cache_expiry, rq, okAt, okBody, coordVars, pageVars, derivedVars,
      cleanupVars, entryVars>>

vars == <<clientVars, coordVars, auxVars>>

----------------------------------------------------------------------------
(* Program constants (oura_full/const.py, oura_full/api.py).               *)

API_TIMEOUT == 30

MAX_RETRIES == 3

RATE_LIMIT_DELAY == 2

\* timedelta(minutes=5), in seconds
CACHE_TTL == 300

\* response.headers.get("Retry-After", 60)
DEFAULT_RETRY_AFTER == 60

\* datetime.min, before every time of the model
DATETIME_MIN == -1

\* api.py:38: self._rate_limit_remaining = 100
INITIAL_REMAINING == 100

\* api.py:73: if self._rate_limit_remaining <= 5
LOW_REMAINING == 5

\* timedelta.seconds lies in 0..86399: the seconds of a day
DAY_SECONDS == 86400

\* coordinator.py:612: max_days
MAX_DAYS == 30

----------------------------------------------------------------------------
(* Bounds of the model.                                                    *)

\* the clock stops advancing here
MaxTime == 400

\* polls per run
MaxCycles == 2

\* fetches per run that are not answered at once with the day's data
MaxFaults == 2

\* pages the server holds for one paginated endpoint
MaxPages == 3

\* requests per run whose rate-limit check is followed
MaxRequests == 3

\* cleanup passes that are followed after the lists were stored
MaxPasses == 2

\* longest list of freely chosen scores in a data set
MaxScores == 2

\* longest list of freely chosen nights in a data set
MaxNights == 4

\* refreshes whose derived metrics are followed
MaxRounds == 2

----------------------------------------------------------------------------
(* Values.  A Python dict is a function whose DOMAIN is its key set; None   *)
(* is the record NoneVal; an exception message is the sequence of the      *)
(* words of str(err).                                                      *)

NoneVal == [none |-> TRUE]

EmptyDict == [k \in {} |-> 0]

\* cache_key = f"{method}:{endpoint}:{urlencode(params or {})}": two distinct
\* (method, endpoint, params) triples stand for all of them.
Keys == {"GET:v2/usercollection/daily_sleep:", "GET:v2/usercollection/daily_activity:"}

\* JSON bodies a 2xx answer can carry.
Bodies == { [data |-> <<1>>], [data |-> <<2>>] }

\* Header sets of a 429: Retry-After absent, or a number of seconds.
RetryAfterHeaders == { {}, {<<"Retry-After", 120>>} }

Resp(status, headers, body) ==
    [timeout |-> FALSE, status |-> status, headers |-> headers,
     json_ok |-> TRUE, body |-> body]

\* the request timed out: no response at all
TimeoutAnswer ==
    [timeout |-> TRUE, status |-> 0, headers |-> {}, json_ok |-> FALSE, body |-> NoneVal]

\* a 200 whose body is not JSON: response.json() raises
BadJsonAnswer ==
    [timeout |-> FALSE, status |-> 200, headers |-> {}, json_ok |-> FALSE, body |-> NoneVal]

NoAnswer ==
    [timeout |-> FALSE, status |-> 0, headers |-> {}, json_ok |-> FALSE, body |-> NoneVal]

\* What the server (or the network) does with one attempt.
Answers ==
    {Resp(200, {}, b) : b \in Bodies}
      \cup {Resp(429, h, NoneVal) : h \in RetryAfterHeaders}
      \cup {Resp(s, {}, NoneVal) : s \in {401, 404, 500}}
      \cup {TimeoutAnswer, BadJsonAnswer}

\* response.headers.get(name, default)
HeaderGet(headers, name, default) ==
    IF \E h \in headers : h[1] = name
    THEN (CHOOSE h \in headers : h[1] = name)[2]
    ELSE default

\* Exception messages: str(err), one character per element.

\* api.py:108  "Authentication failed - token may be expired"
MsgAuth ==
    <<"A", "u", "t", "h", "e", "n", "t", "i", "c", "a", "t", "i",
      "o", "n", " ", "f", "a", "i", "l", "e", "d", " ", "-", " ",
      "t", "o", "k", "e", "n", " ", "m", "a", "y", " ", "b", "e",
      " ", "e", "x", "p", "i", "r", "e", "d">>

\* api.py:104  "Rate limit exceeded"
MsgRateLimit ==
    <<"R", "a", "t", "e", " ", "l", "i", "m", "i", "t", " ", "e",
      "x", "c", "e", "e", "d", "e", "d">>

\* api.py:132  f"Request timeout after {MAX_RETRIES} retries"
MsgTimeout ==
    <<"R", "e", "q", "u", "e", "s", "t", " ", "t", "i", "m", "e",
      "o", "u", "t", " ", "a", "f", "t", "e", "r", " ", "3", " ",
      "r", "e", "t", "r", "i", "e", "s">>

\* api.py:116  str(ClientResponseError) of a 500: "500, message='Internal Server Error', ..."
MsgHttp500 ==
    <<"5", "0", "0", ",", " ", "m", "e", "s", "s", "a", "g", "e",
      "=", "'", "I", "n", "t", "e", "r", "n", "a", "l", " ", "S",
      "e", "r", "v", "e", "r", " ", "E", "r", "r", "o", "r", "'">>

\* api.py:119  str(JSONDecodeError)
MsgBadJson ==
    <<"E", "x", "p", "e", "c", "t", "i", "n", "g", " ", "v", "a",
      "l", "u", "e", ":", " ", "l", "i", "n", "e", " ", "1", " ",
      "c", "o", "l", "u", "m", "n", " ", "1", " ", "(", "c", "h",
      "a", "r", " ", "0", ")">>

\* str(TypeError) of sum() over a non-numeric score
MsgTypeError ==
    <<"u", "n", "s", "u", "p", "p", "o", "r", "t", "e", "d", " ",
      "o", "p", "e", "r", "a", "n", "d", " ", "t", "y", "p", "e",
      "(", "s", ")", " ", "f", "o", "r", " ", "+", ":", " ", "'",
      "i", "n", "t", "'", " ", "a", "n", "d", " ", "'", "s", "t",
      "r", "'">>

\* coordinator.py:98  "401"
Needle401 ==
    <<"4", "0", "1">>

\* coordinator.py:98  "authentication"
NeedleAuthentication ==
    <<"a", "u", "t", "h", "e", "n", "t", "i", "c", "a", "t", "i",
      "o", "n">>

NoError == <<>>

----------------------------------------------------------------------------
(* OuraApiClient._request, one attempt at a time.                          *)

\* variant: an entry is served whatever its age
CacheHitAnyAge(c, e, k, t) == k \in DOMAIN c

\* api.py:67-68: the entry exists and its expiry is after now
CacheHit(c, e, k, t) ==
    /\ k \in DOMAIN c
    /\ (IF k \in DOMAIN e THEN e[k] ELSE DATETIME_MIN) > t

\* variant: entries live four minutes
ExpiryFourMinutes(t) == t + 240

\* api.py:123: datetime.now() + timedelta(minutes=5)
Expiry(t) == t + CACHE_TTL

\* variant: the retry test is off by one
MayRetryInclusive(retries) == retries <= MAX_RETRIES

\* api.py:99 and api.py:128: retries < MAX_RETRIES
MayRetry(retries) == retries < MAX_RETRIES

\* api.py:100: int(response.headers.get("Retry-After", 60))
RetryAfter(a) == HeaderGet(a.headers, "Retry-After", DEFAULT_RETRY_AFTER)

\* variant: 404 is not special-cased
IsNotFoundNever(a) == FALSE

\* api.py:98, 107, 111: the status tests
IsRateLimited(a) == a.status = 429
IsUnauthorized(a) == a.status = 401
IsNotFound(a) == a.status = 404

\* api.py:116: response.raise_for_status()
RaisesForStatus(a) == a.status >= 400

\* variant: the retry forgets to count itself
NextRetriesSame(retries) == retries

\* api.py:103 and api.py:131: the retry is called with retries + 1
NextRetries(retries) == retries + 1

\* api.py:87-135: what one attempt's answer makes _request do.
\*   retry  : sleep, then call _request again with retries + 1
\*   return : hand value to the caller, after caching it when store
\*   raise  : raise ClientError / ClientResponseError with msg
Handle(a, retries) ==
    IF a.timeout THEN
        IF MayRetry(retries)
        THEN [ctl |-> "retry", sleep |-> RATE_LIMIT_DELAY]
        ELSE [ctl |-> "raise", msg |-> MsgTimeout]
    ELSE IF IsRateLimited(a) THEN
        IF MayRetry(retries)
        THEN [ctl |-> "retry", sleep |-> RetryAfter(a)]
        ELSE [ctl |-> "raise", msg |-> MsgRateLimit]
    ELSE IF IsUnauthorized(a) THEN [ctl |-> "raise", msg |-> MsgAuth]
    ELSE IF IsNotFound(a) THEN [ctl |-> "return", value |-> NoneVal, store |-> FALSE]
    ELSE IF RaisesForStatus(a) THEN [ctl |-> "raise", msg |-> MsgHttp500]
    ELSE IF ~a.json_ok THEN [ctl |-> "raise", msg |-> MsgBadJson]
    ELSE [ctl |-> "return", value |-> a.body, store |-> TRUE]

\* how long an attempt with this answer was in flight: a timeout fires after
\* API_TIMEOUT seconds (api.py:86); a response's latency is left to Advance
Elapsed(a) == IF a.timeout THEN API_TIMEOUT ELSE 0

IdleRq ==
    [pc |-> "idle", key |-> "", retries |-> 0, result |-> NoneVal, error |-> NoError,
     calls |-> 0, fresh |-> FALSE, expect |-> NoneVal, last |-> NoAnswer, seen |-> {}]

\* history: which kinds of retryable answers (429, timeout) a request has met
Kind(a) == IF a.timeout THEN {"timeout"} ELSE IF a.status = 429 THEN {"429"} ELSE {}

\* api.py:65-87: _request(..., retries) entered at time t: answer from the
\* cache, or issue the network call and await the response
Enter(r, t) ==
    IF CacheHit(cache, cache_expiry, r.key, t)
    THEN [r EXCEPT !.pc = "returned", !.result = cache[r.key]]
    ELSE [r EXCEPT !.pc = "wait", !.calls = @ + 1]

\* a caller invokes _request("GET", endpoint, params) for key k
Call(k) ==
    /\ rq.pc \in {"idle", "returned", "raised"}
    /\ LET fresh == k \in DOMAIN okAt /\ now - okAt[k] < CACHE_TTL
           r0 == [IdleRq EXCEPT !.key = k, !.fresh = fresh,
                                !.expect = IF k \in DOMAIN okBody THEN okBody[k] ELSE NoneVal]
       IN  rq' = Enter(r0, now)
    /\ UNCHANGED <<now, cache, cache_expiry, okAt, okBody>>
    /\ UNCHANGED <<coordVars, auxVars>>

\* the attempt in flight is answered with a
Respond(a) ==
    /\ rq.pc = "wait"
    /\ LET h == Handle(a, rq.retries)
           t == now + Elapsed(a) + (IF h.ctl = "retry" THEN h.sleep ELSE 0)
           r1 == [rq EXCEPT !.last = a, !.seen = @ \cup Kind(a)]
       IN  /\ t <= MaxTime
           /\ now' = t
           /\ IF h.ctl = "return" /\ h.store
              THEN /\ cache' = [k \in DOMAIN cache \cup {rq.key} |->
                                   IF k = rq.key THEN h.value ELSE cache[k]]
                   /\ cache_expiry' = [k \in DOMAIN cache_expiry \cup {rq.key} |->
                                   IF k = rq.key THEN Expiry(t) ELSE cache_expiry[k]]
              ELSE UNCHANGED <<cache, cache_expiry>>
           /\ IF ~a.timeout /\ a.status = 200 /\ a.json_ok
              THEN /\ okAt' = [k \in DOMAIN okAt \cup {rq.key} |->
                                   IF k = rq.key THEN t ELSE okAt[k]]
                   /\ okBody' = [k \in DOMAIN okBody \cup {rq.key} |->
                                   IF k = rq.key THEN a.body ELSE okBody[k]]
              ELSE UNCHANGED <<okAt, okBody>>
           /\ rq' = CASE h.ctl = "retry"  -> Enter([r1 EXCEPT !.retries = NextRetries(@)], t)
                      [] h.ctl = "return" -> [r1 EXCEPT !.pc = "returned", !.result = h.value]
                      [] h.ctl = "raise"  -> [r1 EXCEPT !.pc = "raised", !.error = h.msg]
    /\ UNCHANGED <<coordVars, auxVars>>

\* api.py:372-376
clear_cache ==
    /\ cache' = EmptyDict
    /\ cache_expiry' = EmptyDict
    /\ okAt' = EmptyDict
    /\ okBody' = EmptyDict
    /\ UNCHANGED <<now, rq>>
    /\ UNCHANGED <<coordVars, auxVars>>

\* time passes
Steps == {240, 60}

Advance(d) ==
    /\ now + d <= MaxTime
    /\ now' = now + d
    /\ UNCHANGED <<cache, cache_expiry, rq, okAt, okBody>>
    /\ UNCHANGED <<coordVars, auxVars>>

----------------------------------------------------------------------------
(* OuraApiClient._request and _paginated_request run to completion, for     *)
(* the coordinator.  The coordinator polls no more often than every         *)
(* 5 minutes (config_flow.py:54, const.py:31), which is the cache's         *)
(* lifetime, so a poll's requests miss the cache (api.py:68 is strict).     *)

RECURSIVE Run(_, _, _)
\* api.py:54-135 with a cache miss: attempt i of answers, after `retries` retries
Run(answers, i, retries) ==
    LET h == Handle(answers[i], retries)
    IN  IF h.ctl = "retry" THEN Run(answers, i + 1, NextRetries(retries)) ELSE h

\* answers holds exactly the attempts _request makes
Complete(answers) ==
    /\ Len(answers) >= 1
    /\ \A i \in 1..Len(answers) :
          (Handle(answers[i], i - 1).ctl = "retry") <=> (i < Len(answers))

\* Python truth of a response: None and {} are false
Truthy(response) == response # NoneVal /\ DOMAIN response # {}

\* variant: the cursor of a response is never read
NextTokenNone(response) == ""

\* response.get("next_token")
NextToken(response) ==
    IF "next_token" \in DOMAIN response THEN response.next_token ELSE ""

RECURSIVE Paginate(_, _, _)
\* variant: a page that raises ends the loop with the pages read so far
PagePartial(r, pages, i, all_data) ==
    IF r.ctl = "raise" THEN [ctl |-> "return", value |-> all_data]
    ELSE IF Truthy(r.value) /\ "data" \in DOMAIN r.value
    THEN IF NextToken(r.value) # "" /\ i < Len(pages)
         THEN Paginate(pages, i + 1, all_data \o r.value.data)
         ELSE [ctl |-> "return", value |-> all_data \o r.value.data]
    ELSE [ctl |-> "return", value |-> all_data]

\* api.py:153-161: what the loop does with the response r to the request for
\* page i
Page(r, pages, i, all_data) ==
    IF r.ctl = "raise" THEN r
    ELSE IF Truthy(r.value) /\ "data" \in DOMAIN r.value
    THEN IF NextToken(r.value) # "" /\ i < Len(pages)
         THEN Paginate(pages, i + 1, all_data \o r.value.data)
         ELSE [ctl |-> "return", value |-> all_data \o r.value.data]
    ELSE [ctl |-> "return", value |-> all_data]

\* api.py:147-163: the loop of _paginated_request from page i on
Paginate(pages, i, all_data) == Page(Run(pages[i], 1, 0), pages, i, all_data)

\* api.py:137-163
PaginatedRequest(pages) == Paginate(pages, 1, <<>>)

----------------------------------------------------------------------------
(* Data models (oura_full/models.py) and the payloads of the model.        *)

\* a JSON value that is a number, null, or a string
IntV(n) == [kind |-> "int", v |-> n]
NullV == [kind |-> "none", v |-> 0]
StrV == [kind |-> "str", v |-> 0]

\* dict.get(key, default)
Get(d, key, default) == IF key \in DOMAIN d THEN d[key] ELSE default

\* models.py:149-160, 197-214: XData.from_api_response(item), the fields the
\* coordinator reads (steps: of ActivityData); day 0 stands for ""
from_api_response(item) ==
    [id |-> Get(item, "id", 0), day |-> Get(item, "day", 0),
     score |-> Get(item, "score", NullV), steps |-> Get(item, "steps", NullV)]

\* models.py:69-91: SleepData.from_api_response(item)
sleep_from_api_response(item) ==
    [id |-> Get(item, "id", 0), day |-> Get(item, "day", 0),
     score |-> Get(item, "score", NullV),
     bedtime_start |-> Get(item, "bedtime_start", NullV),
     bedtime_end |-> Get(item, "bedtime_end", NullV), heart_rate_5min |-> <<>>]

\* models.py:111-115: SleepData.add_period_details (heart_rate; hrv,
\* movement_30_sec and sleep_phase_5_min are copied the same way)
add_period_details(sleep, period_data) ==
    IF "heart_rate" \in DOMAIN period_data
    THEN [sleep EXCEPT !.heart_rate_5min = Get(period_data.heart_rate, "items", <<>>)]
    ELSE sleep

\* what the server holds on day g
GoodItems(endpoint, g) ==
    CASE endpoint = "heartrate" ->
            << [timestamp |-> [date |-> g, time |-> 1], bpm |-> IntV(60)],
               [timestamp |-> [date |-> g, time |-> 2], bpm |-> IntV(70)] >>
      [] endpoint = "sleep" ->
            << [id |-> g, day |-> g, heart_rate |-> [items |-> <<55, 54>>]] >>
      [] endpoint = "daily_spo2" ->
            << [id |-> g, day |-> g] >>
      [] OTHER ->
            << [id |-> g, day |-> g, score |-> IntV(80)] >>

\* the same with a score (or bpm) that is a string instead of a number
BadItems(endpoint, g) ==
    CASE endpoint = "heartrate" ->
            << [timestamp |-> [date |-> g, time |-> 1], bpm |-> StrV] >>
      [] OTHER ->
            << [id |-> g, day |-> g, score |-> StrV] >>

\* the answers a poll on day g can get from an endpoint
Finals(endpoint, g) ==
    {Resp(200, {}, [data |-> GoodItems(endpoint, g)]),
     Resp(200, {}, [data |-> BadItems(endpoint, g)])}
      \cup {Resp(s, {}, NoneVal) : s \in {401, 404, 429, 500}}
      \cup {TimeoutAnswer}

\* the retried attempts before the last one: none, one timeout, or as many
\* 429s or timeouts as there are retries
Prefixes ==
    {<<>>, <<TimeoutAnswer>>} \cup
    { [i \in 1..MAX_RETRIES |-> r] : r \in {Resp(429, {}, NoneVal), TimeoutAnswer} }

\* the attempts of one request: retries exactly while an answer asks for one
AnswerSeqs(endpoint, g) ==
    { a \in { p \o <<f>> : p \in Prefixes, f \in Finals(endpoint, g) } :
        /\ Complete(a)
        /\ Len(a) = 2 => a[2] = Resp(200, {}, [data |-> GoodItems(endpoint, g)])
        /\ Len(a) = MAX_RETRIES + 1 => a[Len(a)] = a[1] }

\* answered at once with the day's data
Plain(endpoint, g) == <<Resp(200, {}, [data |-> GoodItems(endpoint, g)])>>

----------------------------------------------------------------------------
(* OuraDataUpdateCoordinator (oura_full/coordinator.py).                    *)

\* coordinator.py:81-90: the tasks dict, in order
TaskKeys ==
    <<"sleep", "readiness", "activity", "heart_rate", "stress", "workouts",
      "spo2", "temperature">>

Categories == {TaskKeys[i] : i \in 1..Len(TaskKeys)}

\* coordinator.py:598-605 (and 586-593): cache_map
cache_map ==
    [sleep |-> "sleep_data", readiness |-> "readiness_data",
     activity |-> "activity_data", heart_rate |-> "heart_rate_data",
     stress |-> "stress_data", workouts |-> "workout_data"]

Attrs == {cache_map[k] : k \in DOMAIN cache_map}

\* the endpoints a category's fetch asks, in order (api.py:186-284)
Endpoints(key) ==
    CASE key = "sleep" -> <<"daily_sleep", "sleep">>
      [] key = "readiness" -> <<"daily_readiness">>
      [] key = "activity" -> <<"daily_activity">>
      [] key = "heart_rate" -> <<"heartrate">>
      [] key = "stress" -> <<"daily_stress">>
      [] key = "workouts" -> <<"workout">>
      [] key = "spo2" -> <<"daily_spo2">>
      [] OTHER -> <<>>

\* variant: the fallback is an empty list
get_cached_data_cleared(l, key) == <<>>

\* coordinator.py:584-594
get_cached_data(l, key) ==
    IF key \in DOMAIN cache_map THEN l[cache_map[key]] ELSE <<>>

\* coordinator.py:596-608
cache_data(l, key, data) ==
    IF key \in DOMAIN cache_map THEN [l EXCEPT ![cache_map[key]] = data] ELSE l

RECURSIVE SumV(_)
SumV(values) == IF values = <<>> THEN 0 ELSE Head(values).v + SumV(Tail(values))

Min(S) == CHOOSE x \in S : \A y \in S : x <= y
Max(S) == CHOOSE x \in S : \A y \in S : x >= y

RECURSIVE Uniq(_)
\* the keys of a dict filled in this order
Uniq(seq) ==
    IF seq = <<>> THEN <<>>
    ELSE LET rest == Uniq(SubSeq(seq, 1, Len(seq) - 1))
             x == seq[Len(seq)]
         IN  IF \E i \in 1..Len(rest) : rest[i] = x THEN rest ELSE Append(rest, x)

\* coordinator.py:213-234: samples grouped by day, one HeartRateData per day;
\* sum(), min() and max() raise TypeError on a bpm that is no number
HeartRateGroups(raw_data) ==
    LET dayOf(item) == Get(item, "timestamp", [date |-> 0, time |-> 0]).date
        days == Uniq([i \in 1..Len(raw_data) |-> dayOf(raw_data[i])])
        vals(d) == LET idx == {i \in 1..Len(raw_data) : dayOf(raw_data[i]) = d}
                       f[n \in 0..Len(raw_data)] ==
                           IF n = 0 THEN <<>>
                           ELSE IF n \in idx
                                THEN Append(f[n - 1], Get(raw_data[n], "bpm", IntV(0)))
                                ELSE f[n - 1]
                   IN  f[Len(raw_data)]
        bad == \E i \in 1..Len(raw_data) : Get(raw_data[i], "bpm", IntV(0)).kind # "int"
        nums(d) == {vals(d)[i].v : i \in 1..Len(vals(d))}
    IN  IF bad THEN [ctl |-> "raise", msg |-> MsgTypeError]
        ELSE [ctl |-> "return",
              value |-> [j \in 1..Len(days) |->
                  [day |-> days[j],
                   average |-> <<SumV(vals(days[j])), Len(vals(days[j]))>>,
                   minimum |-> Min(nums(days[j])), maximum |-> Max(nums(days[j])),
                   resting |-> Min(nums(days[j])), samples |-> vals(days[j])]]]

\* What one fetch coroutine does with the answers in plan (one list of
\* pages per endpoint): the list it returns or the exception it raises, and
\* whether it assigned the list to its attribute.
\*   coordinator.py:139-167  _fetch_sleep_data
\*   coordinator.py:169-277  _fetch_readiness/activity/heart_rate/stress/workout_data
\*   coordinator.py:279-288  _fetch_spo2_data
\*   coordinator.py:290-293  _fetch_temperature_data
Raised(m) == [exc |-> TRUE, value |-> <<>>, msg |-> m, assign |-> FALSE]
Fetched(v, a) == [exc |-> FALSE, value |-> v, msg |-> NoError, assign |-> a]

\* coordinator.py:157-159
WithPeriods(sleep, sleep_periods, end_date) ==
    IF sleep_periods # <<>> /\ sleep.day = end_date
    THEN add_period_details(sleep, sleep_periods[1])
    ELSE sleep

\* coordinator.py:148-163: after get_daily_sleep has returned raw_data
SleepPeriods(raw_data, sleep_periods, end_date) ==
    IF sleep_periods.ctl = "raise" THEN Raised(sleep_periods.msg)
    ELSE Fetched([i \in 1..Len(raw_data) |->
                     WithPeriods(sleep_from_api_response(raw_data[i]),
                                 sleep_periods.value, end_date)],
                 TRUE)

\* coordinator.py:142-163
DailySleep(raw_data, plan, end_date) ==
    IF raw_data.ctl = "raise" THEN Raised(raw_data.msg)
    ELSE SleepPeriods(raw_data.value, PaginatedRequest(plan[2]), end_date)

fetch_sleep(plan, end_date) == DailySleep(PaginatedRequest(plan[1]), plan, end_date)

\* coordinator.py:177-181 (and 195-199, 251-255, 269-273)
Daily(raw_data) ==
    IF raw_data.ctl = "raise" THEN Raised(raw_data.msg)
    ELSE Fetched([i \in 1..Len(raw_data.value) |-> from_api_response(raw_data.value[i])],
                 TRUE)

fetch_daily(plan) == Daily(PaginatedRequest(plan[1]))

\* coordinator.py:236-237
HeartRate(g) == IF g.ctl = "raise" THEN Raised(g.msg) ELSE Fetched(g.value, TRUE)

\* coordinator.py:213-237
HeartRateSamples(raw_data) ==
    IF raw_data.ctl = "raise" THEN Raised(raw_data.msg)
    ELSE HeartRate(HeartRateGroups(raw_data.value))

fetch_heart_rate(plan) == HeartRateSamples(PaginatedRequest(plan[1]))

\* coordinator.py:285-288: except Exception: return []
SpO2(raw_data) ==
    IF raw_data.ctl = "raise" THEN Fetched(<<>>, FALSE)
    ELSE Fetched(raw_data.value, FALSE)

fetch_spo2(plan) == SpO2(PaginatedRequest(plan[1]))

FetchOutcome(key, plan, end_date) ==
    CASE key = "sleep" -> fetch_sleep(plan, end_date)
      [] key = "heart_rate" -> fetch_heart_rate(plan)
      [] key = "spo2" -> fetch_spo2(plan)
      [] key = "temperature" -> Fetched(<<>>, FALSE)
      [] OTHER -> fetch_daily(plan)

\* a first page that carries a cursor, and what the request for the second
\* page meets: more data, no data, an error status, or timeouts to the end
TwoPages(endpoint, g) ==
    { << <<Resp(200, {}, [data |-> GoodItems(endpoint, g), next_token |-> "t1"])>>, second >> :
        second \in {<<Resp(200, {}, [data |-> GoodItems(endpoint, g + 1)])>>,
                    <<Resp(404, {}, NoneVal)>>, <<Resp(401, {}, NoneVal)>>,
                    <<Resp(500, {}, NoneVal)>>,
                    [i \in 1..(MAX_RETRIES + 1) |-> TimeoutAnswer]} }

\* the plans a fetch can meet on day g: for each endpoint it gets to ask one
\* page, or two pages for its first endpoint
Plans(key, g) ==
    LET eps == Endpoints(key)
    IN  IF Len(eps) = 0 THEN { <<>> }
        ELSE IF Len(eps) = 1
        THEN { << <<a>> >> : a \in AnswerSeqs(eps[1], g) }
               \cup { <<pages>> : pages \in TwoPages(eps[1], g) }
        ELSE UNION { { << <<a>>, <<b>> >> :
                          b \in { x \in AnswerSeqs(eps[2], g) :
                                    Run(a, 1, 0).ctl = "return" \/ x = Plain(eps[2], g) } } :
                      a \in AnswerSeqs(eps[1], g) }
               \cup { <<pages, <<Plain(eps[2], g)>> >> : pages \in TwoPages(eps[1], g) }

PlainPlan(key, g) ==
    [i \in 1..Len(Endpoints(key)) |-> << Plain(Endpoints(key)[i], g) >>]

RECURSIVE PageStatuses(_, _)
\* history: the statuses of the last answers to the requests of one
\* paginated request, from page i on
PageStatuses(pages, i) ==
    LET r == Run(pages[i], 1, 0)
        st == <<pages[i][Len(pages[i])].status>>
    IN  IF r.ctl = "return" /\ i < Len(pages)
        THEN IF Truthy(r.value) /\ NextToken(r.value) # ""
             THEN st \o PageStatuses(pages, i + 1) ELSE st
        ELSE st

RECURSIVE AskedFrom(_, _)
AskedFrom(plan, i) ==
    IF i > Len(plan) THEN <<>>
    ELSE IF PaginatedRequest(plan[i]).ctl = "return"
    THEN PageStatuses(plan[i], 1) \o AskedFrom(plan, i + 1)
    ELSE PageStatuses(plan[i], 1)

\* history: the statuses of the last answers to the requests a fetch made,
\* in order (0: timed out)
AskedStatuses(plan) == AskedFrom(plan, 1)

\* variant: the message is not lower-cased
LowerIdentity(c) == c

\* str.lower(), on the capitals the messages hold
Lower(c) ==
    CASE c = "A" -> "a" [] c = "E" -> "e" [] c = "I" -> "i"
      [] c = "R" -> "r" [] c = "S" -> "s" [] OTHER -> c

LowerStr(m) == [i \in 1..Len(m) |-> Lower(m[i])]

\* needle in m
Contains(m, needle) ==
    \E i \in 1..(Len(m) - Len(needle) + 1) :
        \A j \in 1..Len(needle) : m[i + j - 1] = needle[j]

\* coordinator.py:98: "401" in str(result) or "authentication" in str(result).lower()
IsAuthError(m) ==
    LET lower == LowerStr(m)
    IN  Contains(m, Needle401) \/ Contains(lower, NeedleAuthentication)

\* Python truth of a score
TruthyV(x) == x.kind = "str" \/ (x.kind = "int" /\ x.v # 0)

\* [r.score for r in records[:7] if r.score]
RecentScores(records) ==
    LET n == IF Len(records) < 7 THEN Len(records) ELSE 7
    IN  SelectSeq([i \in 1..n |-> records[i].score], TruthyV)

\* variant: a list without scores is never below
AvgBelowNoScores(scores, c) == scores # <<>> /\ SumV(scores) < c * Len(scores)

\* sum(scores) / len(scores) if scores else 0, compared with c
AvgBelow(scores, c) ==
    IF scores = <<>> THEN 0 < c ELSE SumV(scores) < c * Len(scores)

\* variant: the comparison is not strict
AvgAboveInclusive(scores, c) == scores # <<>> /\ SumV(scores) >= c * Len(scores)

\* sum(scores) / len(scores) if scores else 0, compared with c
AvgAbove(scores, c) ==
    IF scores = <<>> THEN 0 > c ELSE SumV(scores) > c * Len(scores)

\* coordinator.py:310-336; sum() raises TypeError on a score that is a string
calculate_wellness_phase(data) ==
    LET readiness == Get(data, "readiness", <<>>)
        sleep == Get(data, "sleep", <<>>)
        activity == Get(data, "activity", <<>>)
        rr == RecentScores(readiness)
        rs == RecentScores(sleep)
        ra == RecentScores(activity)
        bad(x) == \E i \in 1..Len(x) : x[i].kind = "str"
    IN  IF readiness = <<>> \/ sleep = <<>> THEN [ctl |-> "return", value |-> "maintenance"]
        ELSE IF bad(rr) \/ bad(rs) \/ bad(ra) THEN [ctl |-> "raise", msg |-> MsgTypeError]
        ELSE IF AvgBelow(rr, 60) \/ AvgBelow(rs, 60)
             THEN [ctl |-> "return", value |-> "recovery"]
        ELSE IF AvgAbove(rr, 85) /\ AvgAbove(rs, 80) /\ AvgAbove(ra, 75)
             THEN [ctl |-> "return", value |-> "peak"]
        ELSE IF AvgAbove(rr, 75) /\ AvgAbove(rs, 70)
             THEN [ctl |-> "return", value |-> "challenge"]
        ELSE [ctl |-> "return", value |-> "maintenance"]

\* d[k] = v
Put(d, k, v) == [x \in DOMAIN d \cup {k} |-> IF x = k THEN v ELSE d[x]]

\* The records and the data sets of the derived metrics; the derived metrics.

\* models.py:141-160: a ReadinessData with this score
ReadinessData(score) == [id |-> 1, day |-> 1, score |-> score]

\* models.py:40-91: a SleepData with this score and these bedtimes
SleepData(score, bedtime_start, bedtime_end) ==
    [id |-> 1, day |-> 1, score |-> score, bedtime_start |-> bedtime_start,
     bedtime_end |-> bedtime_end, heart_rate_5min |-> <<>>]

\* models.py:186-221: an ActivityData with this score and step count
ActivityData(score, steps) == [id |-> 1, day |-> 1, score |-> score, steps |-> steps]

\* the lists of at most n elements of S
Lists(S, n) == UNION {[1..k -> S] : k \in 0..n}

\* n records of one kind
Repeat(record, n) == [i \in 1..n |-> record]

\* a datetime of hour h and minute m (the date plays no part)
TimeV(h, m) == [kind |-> "time", h |-> h, m |-> m]

\* a fraction num / den, den > 0
Frac(num, den) == [num |-> num, den |-> den]

\* the data sets whose wellness phase is computed.  Scores: none, 0, and
\* values on and around the thresholds.  Readiness lists: short ones, and ones
\* behind six days of 90, which reach past the first 7 entries.
PhaseInputs ==
    LET readiness ==
            Lists({ReadinessData(v) :
                      v \in {NullV, IntV(0), IntV(55), IntV(60), IntV(85), IntV(90)}},
                  MaxScores)
        longer ==
            {Repeat(ReadinessData(IntV(90)), 6) \o l :
                l \in {x \in readiness : Len(x) = MaxScores}}
        sleep ==
            Lists({SleepData(v, NullV, NullV) :
                      v \in {NullV, IntV(55), IntV(60), IntV(80), IntV(85)}}, 2)
        activity ==
            Lists({ActivityData(v, NullV) : v \in {NullV, IntV(75), IntV(80)}}, 1)
    IN  {[readiness |-> r, sleep |-> sl, activity |-> a] :
            r \in readiness \cup longer, sl \in sleep, a \in activity}

\* the data sets whose circadian alignment is computed.  Bedtime starts and
\* ends: none, or one of two times 3 h 45 min apart; the means of up to 6 such
\* times are exact in binary floating point, so the code's float arithmetic
\* gives the exact values.  Sleep lists: short ones, and ones behind fourteen
\* nights without bedtimes, which reach past the first 14 entries.
CircadianInputs ==
    LET nights ==
            Lists({SleepData(NullV, b, e) :
                      b \in {NullV, TimeV(22, 0), TimeV(18, 15)},
                      e \in {NullV, TimeV(7, 0), TimeV(3, 15)}},
                  MaxNights)
        longer ==
            {Repeat(SleepData(NullV, NullV, NullV), 14) \o l :
                l \in {x \in nights : Len(x) = 3}}
    IN  {[readiness |-> <<>>, sleep |-> sl, activity |-> <<>>] :
            sl \in nights \cup longer}

\* the data sets whose trends are computed.  Values: none, 0, and two that
\* differ.  Sleep lists: fewer than 7 records; a week of one value followed by
\* 0, 1, 7 or 8 records of another; a week followed by six records without a
\* score and one with.  A few readiness and activity (steps) lists.
TrendInputs ==
    LET values == {NullV, IntV(0), IntV(70), IntV(80)}
        sleep(v) == SleepData(v, NullV, NullV)
        steps(v) == ActivityData(NullV, v)
        sleeps ==
            {<<>>, <<sleep(IntV(80))>>}
            \cup {Repeat(sleep(a), 7) \o Repeat(sleep(b), k) :
                    a \in values, b \in values, k \in {0, 1, 7, 8}}
            \cup {Repeat(sleep(IntV(80)), 7) \o Repeat(sleep(NullV), 6)
                    \o <<sleep(IntV(70))>>}
    IN  {[readiness |-> r, sleep |-> sl, activity |-> a] :
            sl \in sleeps,
            r \in {<<>>, Repeat(ReadinessData(IntV(80)), 7) \o <<ReadinessData(IntV(70))>>},
            a \in {<<>>, Repeat(steps(IntV(80)), 7) \o <<steps(IntV(0))>>,
                   Repeat(steps(IntV(70)), 7) \o Repeat(steps(IntV(80)), 7)}}

\* the data sets whose predictions are computed: lists of at most one record
\* (one readiness list of two), newest readiness scores none, 0, and values
\* on and around the thresholds 70 and 85
PredictionInputs ==
    {[readiness |-> r, sleep |-> sl, activity |-> a] :
        r \in {<<>>, <<ReadinessData(IntV(86)), ReadinessData(IntV(60))>>}
              \cup {<<ReadinessData(v)>> :
                      v \in {NullV, IntV(0), IntV(69), IntV(70), IntV(71), IntV(85), IntV(86)}},
        sl \in {<<>>, <<SleepData(IntV(80), NullV, NullV)>>, <<SleepData(NullV, NullV, NullV)>>},
        a \in {<<>>, <<ActivityData(IntV(80), NullV)>>, <<ActivityData(NullV, NullV)>>}}

\* the data sets of a later refresh: nothing at all, and one record each
LaterInputs ==
    {[readiness |-> <<>>, sleep |-> <<>>, activity |-> <<>>],
     [readiness |-> <<ReadinessData(IntV(69))>>,
      sleep |-> <<SleepData(IntV(80), NullV, NullV)>>,
      activity |-> <<ActivityData(IntV(80), NullV)>>]}

DerivedInputs == PhaseInputs \cup CircadianInputs \cup TrendInputs \cup PredictionInputs

RECURSIVE GCD(_, _)
GCD(a, b) == IF b = 0 THEN a ELSE GCD(b, a % b)

\* sum(values) / len(values), in lowest terms
Mean(values) ==
    Frac(SumV(values) \div GCD(SumV(values), Len(values)),
         Len(values) \div GCD(SumV(values), Len(values)))

\* [x.field for x in records[from:to] if x.field]
Samples(records, from, to, field) ==
    LET last == IF Len(records) < to THEN Len(records) ELSE to
    IN  SelectSeq([i \in 1..(IF last < from THEN 0 ELSE last - from + 1) |->
                       records[from + i - 1][field]], TruthyV)

\* variant: the previous window must hold a full week of samples
EnoughSamplesFullWeek(recent, older) == recent # <<>> /\ Len(older) = 7

\* coordinator.py:393, 404, 415: if recent and older
EnoughSamples(recent, older) == recent # <<>> /\ older # <<>>

\* coordinator.py:394-398: the entry of one category
TrendEntry(recent, older) ==
    [current |-> Mean(recent), previous |-> Mean(older),
     direction |-> IF SumV(recent) * Len(older) > SumV(older) * Len(recent)
                   THEN "up" ELSE "down"]

\* coordinator.py:390-398: one category's step
Trend(t, name, recent, older) ==
    IF EnoughSamples(recent, older) THEN Put(t, name, TrendEntry(recent, older)) ELSE t

\* coordinator.py:385-422: async_calculate_trends(); the activity trend is
\* taken of the steps
async_calculate_trends(l) ==
    Trend(Trend(Trend(EmptyDict, "sleep",
                      Samples(l.sleep_data, 1, 7, "score"),
                      Samples(l.sleep_data, 8, 14, "score")),
                "readiness",
                Samples(l.readiness_data, 1, 7, "score"),
                Samples(l.readiness_data, 8, 14, "score")),
          "activity",
          Samples(l.activity_data, 1, 7, "steps"),
          Samples(l.activity_data, 8, 14, "steps"))

\* coordinator.py:349-353: the times of day (x.hour + x.minute / 60), in
\* minutes, of the first 14 records that have the field
TimesOfDay(sleep, field) ==
    LET n == IF Len(sleep) < 14 THEN Len(sleep) ELSE 14
        has(x) == x.kind # "none"
        kept == SelectSeq([i \in 1..n |-> sleep[i][field]], has)
    IN  [i \in 1..Len(kept) |-> 60 * kept[i].h + kept[i].m]

RECURSIVE Sum(_)
Sum(xs) == IF xs = <<>> THEN 0 ELSE Head(xs) + Sum(Tail(xs))

RECURSIVE SumSq(_)
SumSq(xs) == IF xs = <<>> THEN 0 ELSE Head(xs) * Head(xs) + SumSq(Tail(xs))

\* coordinator.py:359-360, 366: max(0, 100 - variance * 20) of times given in
\* minutes: the variance in hours^2 is (n * SumSq - Sum^2) / (3600 * n^2)
ConsistencyScore(xs) ==
    LET n == Len(xs)
        den == 180 * n * n
        num == 100 * den - (n * SumSq(xs) - Sum(xs) * Sum(xs))
    IN  Frac(IF num > 0 THEN num ELSE 0, den)

\* coordinator.py:362-363, 367: without wake times the variance is 1
WakeScore(xs) == IF xs = <<>> THEN Frac(80, 1) ELSE ConsistencyScore(xs)

\* coordinator.py:368: (bedtime_score + wake_score) / 2
Overall(b, w) == Frac(b.num * w.den + w.num * b.den, 2 * b.den * w.den)

\* round(x): to the nearest integer, a half to the even one
Round(x) ==
    LET q == x.num \div x.den
        r2 == 2 * (x.num % x.den)
    IN  IF r2 < x.den THEN q
        ELSE IF r2 > x.den THEN q + 1
        ELSE IF q % 2 = 0 THEN q ELSE q + 1

\* coordinator.py:371-374, 379-380: f"{int(avg):02d}:{int((avg % 1) * 60):02d}"
\* of the mean of times given in minutes; [h, m] stands for the string
HourMinute(total, n) ==
    [h |-> total \div (60 * n), m |-> (total - 60 * n * (total \div (60 * n))) \div n]

\* coordinator.py:342-343, 355-356
CircadianDefault == [aligned |-> FALSE, score |-> 0, optimal_bedtime |-> [h |-> 22, m |-> 0]]

\* coordinator.py:358-383
CircadianResult(bedtimes, wake_times, b, w) ==
    [aligned |-> Overall(b, w).num > 70 * Overall(b, w).den,
     score |-> Round(Overall(b, w)),
     optimal_bedtime |-> HourMinute(Sum(bedtimes), Len(bedtimes)),
     optimal_wake |-> IF wake_times = <<>> THEN [h |-> 7, m |-> 0]
                      ELSE HourMinute(Sum(wake_times), Len(wake_times)),
     bedtime_consistency |-> Round(b),
     wake_consistency |-> Round(w)]

\* variant: a record counts only with both a bedtime start and a bedtime end
FewBedtimesBothPresent(bedtimes, wake_times) == Len(bedtimes) < 3 \/ Len(wake_times) < 3

\* coordinator.py:355: if len(bedtimes) < 3
FewBedtimes(bedtimes, wake_times) == Len(bedtimes) < 3

\* coordinator.py:345-383
Circadian(bedtimes, wake_times) ==
    IF FewBedtimes(bedtimes, wake_times) THEN CircadianDefault
    ELSE CircadianResult(bedtimes, wake_times, ConsistencyScore(bedtimes),
                         WakeScore(wake_times))

\* coordinator.py:338-383: _calculate_circadian_alignment(data)
calculate_circadian_alignment(data) ==
    IF Get(data, "sleep", <<>>) = <<>> THEN CircadianDefault
    ELSE Circadian(TimesOfDay(data.sleep, "bedtime_start"),
                   TimesOfDay(data.sleep, "bedtime_end"))

\* x or 70
Or70(x) == IF TruthyV(x) THEN x.v ELSE 70

\* coordinator.py:543-548: the bedtime adjustment for today's readiness
BedtimeAdjustment(today_readiness) ==
    IF today_readiness < 70 THEN -30 ELSE IF today_readiness > 85 THEN 0 ELSE -15

\* coordinator.py:528-548: round(r * 0.3 + s * 0.5 + (100 - a * 0.2)) is
\* round((3r + 5s + 1000 - 2a) / 10); for scores 1..100 the float sum rounds
\* as the exact one does
Predict(today_readiness, today_sleep, today_activity) ==
    [tomorrow_readiness |->
        Round(Frac(3 * today_readiness + 5 * today_sleep + 1000 - 2 * today_activity, 10)),
     recommended_bedtime_adjustment |-> BedtimeAdjustment(today_readiness)]

\* coordinator.py:526: if self.readiness_data and self.sleep_data and self.activity_data
HasAllThree(l) == l.readiness_data # <<>> /\ l.sleep_data # <<>> /\ l.activity_data # <<>>

\* coordinator.py:521-549: _generate_predictions(data)
generate_predictions(l) ==
    IF HasAllThree(l)
    THEN Predict(Or70(l.readiness_data[1].score), Or70(l.sleep_data[1].score),
                 Or70(l.activity_data[1].score))
    ELSE EmptyDict

RECURSIVE Process(_, _, _, _)
\* coordinator.py:95-104: the loop over zip(tasks.keys(), results) from task i on
Process(i, results, l, data) ==
    IF i > Len(TaskKeys) THEN [auth |-> FALSE, lists |-> l, data |-> data]
    ELSE LET key == TaskKeys[i]
             result == results[key]
         IN  IF result.exc
             THEN IF IsAuthError(result.msg)
                  THEN [auth |-> TRUE, lists |-> l, data |-> data]
                  ELSE Process(i + 1, results, l, Put(data, key, get_cached_data(l, key)))
             ELSE Process(i + 1, results, cache_data(l, key, result.value),
                          Put(data, key, result.value))

Pending == [exc |-> FALSE, value |-> <<>>, msg |-> NoError, assign |-> FALSE]

IdleCycle ==
    [pc |-> "idle", idx |-> 1, results |-> [k \in Categories |-> Pending],
     statuses |-> [k \in Categories |-> <<>>], prev |-> [a \in Attrs |-> <<>>]]

\* coordinator.py:70-90: _async_update_data starts: the counter is reset and
\* the eight fetches are created
StartUpdate ==
    /\ cyc.pc = "idle"
    /\ tick < MaxCycles
    /\ tick' = tick + 1
    /\ update_errors' = 0
    /\ cyc' = [IdleCycle EXCEPT !.pc = "gather", !.prev = lists]
    /\ UNCHANGED <<lists, wellness_phase, last_update, outcome, returned, faults, failStreak>>
    /\ UNCHANGED <<clientVars, auxVars>>

\* coordinator.py:92: the coroutines of the gather touch different attributes
\* and different cache keys, so they are run in the order of the tasks dict
Turn(key) ==
    /\ cyc.pc = "gather"
    /\ cyc.idx <= Len(TaskKeys)
    /\ TaskKeys[cyc.idx] = key

\* the fetch coroutine of key has ended with f; nf is the number of fetches
\* so far that were not answered at once with the day's data
Ended(key, plan, f, nf) ==
    /\ nf <= MaxFaults
    /\ faults' = nf
    /\ lists' = IF f.assign THEN [lists EXCEPT ![cache_map[key]] = f.value] ELSE lists
    /\ cyc' = [cyc EXCEPT !.idx = @ + 1, !.results[key] = f,
                          !.statuses[key] = AskedStatuses(plan)]
    /\ UNCHANGED <<update_errors, wellness_phase, last_update, tick, outcome, returned,
                   failStreak>>
    /\ UNCHANGED <<clientVars, auxVars>>

\* one fetch coroutine runs to its end
Fetch(key, plan) ==
    /\ Turn(key)
    /\ Ended(key, plan, FetchOutcome(key, plan, tick),
             IF plan = PlainPlan(key, tick) THEN faults ELSE faults + 1)

fetch_sleep_data == Turn("sleep") /\ \E plan \in Plans("sleep", tick) : Fetch("sleep", plan)
fetch_readiness_data == Turn("readiness") /\ \E plan \in Plans("readiness", tick) : Fetch("readiness", plan)
fetch_activity_data == Turn("activity") /\ \E plan \in Plans("activity", tick) : Fetch("activity", plan)
fetch_heart_rate_data == Turn("heart_rate") /\ \E plan \in Plans("heart_rate", tick) : Fetch("heart_rate", plan)
fetch_stress_data == Turn("stress") /\ \E plan \in Plans("stress", tick) : Fetch("stress", plan)
fetch_workout_data == Turn("workouts") /\ \E plan \in Plans("workouts", tick) : Fetch("workouts", plan)
fetch_spo2_data == Turn("spo2") /\ \E plan \in Plans("spo2", tick) : Fetch("spo2", plan)
fetch_temperature_data == Turn("temperature") /\ \E plan \in Plans("temperature", tick) : Fetch("temperature", plan)

\* variant: the failed cycle stamps the time as well
RaiseUpdateFailedStamped ==
    /\ update_errors' = update_errors + 1
    /\ outcome' = "update_failed"
    /\ returned' = EmptyDict
    /\ failStreak' = failStreak + 1
    /\ last_update' = tick
    /\ UNCHANGED <<wellness_phase, circadian_alignment, trends, predictions>>

\* coordinator.py:133-137: the cycle fails as a whole
RaiseUpdateFailed ==
    /\ update_errors' = update_errors + 1
    /\ outcome' = "update_failed"
    /\ returned' = EmptyDict
    /\ failStreak' = failStreak + 1
    /\ UNCHANGED <<wellness_phase, last_update>>
    /\ UNCHANGED <<circadian_alignment, trends, predictions>>

\* coordinator.py:99, 108-137: the call raises ConfigEntryAuthFailed, raises
\* UpdateFailed, or returns the data.  Of the derived metrics only the
\* wellness phase can raise; the AI insights and the MQTT publication
\* (coordinator.py:110-115) catch their own errors and touch none of the
\* variables here.
Conclude(p, w) ==
    /\ lists' = p.lists
    /\ IF p.auth
       THEN /\ outcome' = "auth_failed"
            /\ returned' = EmptyDict
            /\ failStreak' = 0
            /\ UNCHANGED <<update_errors, wellness_phase, last_update>>
            /\ UNCHANGED <<circadian_alignment, trends, predictions>>
       ELSE IF w.ctl = "raise"
       THEN RaiseUpdateFailed
       ELSE /\ wellness_phase' = w.value
            /\ circadian_alignment' = calculate_circadian_alignment(p.data)
            /\ trends' = async_calculate_trends(p.lists)
            /\ predictions' = IF enable_ai THEN generate_predictions(p.lists)
                              ELSE predictions
            /\ last_update' = tick
            /\ outcome' = "success"
            /\ returned' = Put(Put(Put(Put(Put(p.data, "last_update", tick),
                                           "wellness_phase", w.value),
                                       "circadian_alignment", circadian_alignment'),
                                   "trends", trends'),
                               "predictions", predictions')
            /\ failStreak' = 0
            /\ UNCHANGED update_errors

\* coordinator.py:106-107, 294-298: the derived metrics of the processed data
Derive(p) == Conclude(p, calculate_wellness_phase(p.data))

\* coordinator.py:94-137: the gather has returned; the results are processed,
\* the derived metrics computed, and the call returns or raises
FinishUpdate ==
    /\ cyc.pc = "gather"
    /\ cyc.idx > Len(TaskKeys)
    /\ Derive(Process(1, cyc.results, lists, EmptyDict))
    /\ cyc' = [cyc EXCEPT !.pc = "idle"]
    /\ UNCHANGED <<tick, faults, enable_ai, dm>>
    /\ UNCHANGED <<clientVars, pageVars, rateVars, cleanupVars, entryVars>>

----------------------------------------------------------------------------
(* OuraApiClient._paginated_request, one request at a time, against a      *)
(* server that holds a list of pages and hands out cursors.                *)

\* the cursor the server puts on page i
Tokens == <<"t1", "t2", "t3", "t4">>

\* the items page i can hold
PageItems(i) == { <<>>, <<10 * i + 1>>, <<10 * i + 1, 10 * i + 2>> }

\* page i as a response body: with the cursor of the next page, or without one
PageBodies(i) ==
    {[data |-> d, next_token |-> Tokens[i]] : d \in PageItems(i)}
      \cup {[data |-> d] : d \in PageItems(i)}

\* the servers: up to MaxPages pages, the last one without a cursor
Servers ==
    UNION { { srv \in [1..n -> UNION {PageBodies(i) : i \in 1..n}] :
                /\ \A i \in 1..n : srv[i] \in PageBodies(i)
                /\ "next_token" \notin DOMAIN srv[n] } : n \in 1..MaxPages }

\* the server's answer to a request whose params hold next_token = token
\* ("" when params holds none): the first page, or the page after the one
\* that carried this cursor; an unknown cursor has no data (404, api.py:111)
ServerPage(srv, token) ==
    IF token = "" THEN srv[1]
    ELSE IF \E i \in 1..(Len(srv) - 1) : NextToken(srv[i]) = token
         THEN srv[(CHOOSE i \in 1..(Len(srv) - 1) : NextToken(srv[i]) = token) + 1]
         ELSE NoneVal

IdlePg ==
    [pc |-> "idle", server |-> <<>>, next_token |-> "", params_token |-> "",
     all_data |-> <<>>, sent |-> <<>>]

\* api.py:137-145: _paginated_request(endpoint, params) is called
PaginatedCall(srv) ==
    /\ pg.pc \in {"idle", "done"}
    /\ pg' = [IdlePg EXCEPT !.pc = "loop", !.server = srv]
    /\ UNCHANGED notPageVars

\* api.py:153-161: the loop body after response has arrived for the request
\* sent with cursor token
PageArrived(response, token) ==
    IF Truthy(response) /\ "data" \in DOMAIN response
    THEN [pg EXCEPT !.all_data = @ \o response.data,
                    !.next_token = NextToken(response),
                    !.params_token = token,
                    !.sent = Append(@, token),
                    !.pc = IF NextToken(response) = "" THEN "done" ELSE "loop"]
    ELSE [pg EXCEPT !.params_token = token, !.sent = Append(@, token), !.pc = "done"]

\* api.py:147-161: one turn of the loop: params["next_token"] is set when a
\* cursor is held, the request is awaited, the response is processed
PageRequest(token) ==
    /\ pg.pc = "loop"
    /\ pg' = PageArrived(ServerPage(pg.server, token), token)
    /\ UNCHANGED notPageVars

\* api.py:148-151
FetchPage == PageRequest(IF pg.next_token # "" THEN pg.next_token ELSE pg.params_token)

----------------------------------------------------------------------------
(* The rate-limit check of OuraApiClient._request (api.py:72-77) and the    *)
(* tracking of the X-RateLimit headers (api.py:88-95).  The answers of     *)
(* SpecClient carry none of these headers, so there the counter keeps its  *)
(* initial 100 and the check never waits.                                   *)

\* timedelta.seconds of a difference of d seconds: the days are split off,
\* and the days of a negative difference are negative
TimedeltaSeconds(d) == d % DAY_SECONDS

\* api.py:73-77: the seconds _request sleeps before issuing the request
RateLimitWait(remaining, reset, t) ==
    IF remaining <= LOW_REMAINING
    THEN (IF TimedeltaSeconds(reset - t) > 0 THEN TimedeltaSeconds(reset - t) ELSE 0)
    ELSE 0

\* the rate-limit headers a response can carry: none, either, or both
RateHeaders ==
    { r \cup t : r \in { {}, {<<"X-RateLimit-Remaining", 5>>},
                             {<<"X-RateLimit-Remaining", 6>>} },
                 t \in { {}, {<<"X-RateLimit-Reset", 30>>},
                             {<<"X-RateLimit-Reset", 150>>},
                             {<<"X-RateLimit-Reset", 100000>>} } }

\* the seconds between a response and the next call of _request
Gaps == {0, 40, 86400}

IdleRl == [pc |-> "idle", n |-> 0, at |-> 0, remaining |-> INITIAL_REMAINING,
           reset |-> 0, waited |-> 0, headers |-> {}]

\* api.py:72-77: _request is entered gap seconds after the last response,
\* misses the cache and sleeps as the rate-limit check says
RateRequest(gap) ==
    /\ rl.pc = "idle"
    /\ rl.n < MaxRequests
    /\ now' = now + gap
                + RateLimitWait(rate_limit_remaining, rate_limit_reset, now + gap)
    /\ rl' = [rl EXCEPT !.pc = "sent", !.n = @ + 1, !.at = now + gap,
                        !.remaining = rate_limit_remaining,
                        !.reset = rate_limit_reset,
                        !.waited = RateLimitWait(rate_limit_remaining,
                                                 rate_limit_reset, now + gap)]
    /\ UNCHANGED <<rate_limit_remaining, rate_limit_reset>>
    /\ UNCHANGED notRateVars

\* api.py:88-95: a response with these headers arrives
RateRespond(headers) ==
    /\ rl.pc = "sent"
    /\ rate_limit_remaining' =
          HeaderGet(headers, "X-RateLimit-Remaining", rate_limit_remaining)
    /\ rate_limit_reset' = HeaderGet(headers, "X-RateLimit-Reset", rate_limit_reset)
    /\ rl' = [rl EXCEPT !.pc = "idle", !.headers = headers]
    /\ UNCHANGED now
    /\ UNCHANGED notRateVars

\* api.py:127: the request times out: no response, no headers
RateTimeout ==
    /\ rl.pc = "sent"
    /\ rl' = [rl EXCEPT !.pc = "idle", !.headers = {}]
    /\ UNCHANGED <<now, rate_limit_remaining, rate_limit_reset>>
    /\ UNCHANGED notRateVars

----------------------------------------------------------------------------
(* The derived metrics of a refreshed data set (coordinator.py:294-308),    *)
(* computed once over lists drawn from bounded families of records.        *)

IdleDm == [pc |-> "idle", data |-> EmptyDict, round |-> 0]

\* coordinator.py:95-104: a refresh has stored the fetched lists and handed
\* them on in the data dict
Refreshed(data) ==
    /\ dm.pc \in {"idle", "derived"}
    /\ lists' = [lists EXCEPT !.readiness_data = data.readiness,
                              !.sleep_data = data.sleep,
                              !.activity_data = data.activity]
    /\ dm' = [dm EXCEPT !.pc = "loaded", !.data = data]
    /\ UNCHANGED <<wellness_phase, circadian_alignment, trends, predictions, enable_ai>>
    /\ UNCHANGED notDerivedVars

\* switch.py:210-212: the AI insights switch is turned on or off
handle_ai_insights(enabled) ==
    /\ enable_ai' = enabled
    /\ UNCHANGED <<lists, wellness_phase, circadian_alignment, trends, predictions, dm>>
    /\ UNCHANGED notDerivedVars

\* coordinator.py:294-308: _calculate_derived_metrics(data)
DerivedMetrics(w) ==
    /\ wellness_phase' = IF w.ctl = "return" THEN w.value ELSE wellness_phase
    /\ circadian_alignment' = IF w.ctl = "return"
                              THEN calculate_circadian_alignment(dm.data)
                              ELSE circadian_alignment
    /\ trends' = IF w.ctl = "return" THEN async_calculate_trends(lists) ELSE trends
    /\ predictions' = IF w.ctl = "return" /\ enable_ai
                      THEN generate_predictions(lists) ELSE predictions
    /\ dm' = [dm EXCEPT !.pc = IF w.ctl = "return" THEN "derived" ELSE "raised",
                        !.round = @ + 1]

calculate_derived_metrics ==
    /\ dm.pc = "loaded"
    /\ DerivedMetrics(calculate_wellness_phase(dm.data))
    /\ UNCHANGED <<lists, enable_ai>>
    /\ UNCHANGED notDerivedVars

----------------------------------------------------------------------------
(* The daily cleanup pass (coordinator.py:610-626, __init__.py:260-270)     *)
(* over lists of lengths around the limits.                                *)

IdleCl == [stored |-> FALSE, passes |-> 0, first |-> [a \in Attrs |-> <<>>],
           before |-> [a \in Attrs |-> <<>>]]

\* the number of entries the pass keeps of a list: max_days, and three times
\* as many workouts
KeepLimit(attr) == IF attr = "workout_data" THEN 3 * MAX_DAYS ELSE MAX_DAYS

\* the refreshes so far have left these lists, and the last one ended so:
\* each list is empty (size 0), one short of its limit (1), at the limit (2)
\* or one beyond it (3), its records numbered from the newest
StoredBy(sizes, o) ==
    /\ ~cl.stored
    /\ lists' = [a \in Attrs |->
                    [i \in 1..(IF sizes[a] = 0 THEN 0 ELSE KeepLimit(a) + sizes[a] - 2) |->
                        from_api_response([id |-> i, day |-> i])]]
    /\ outcome' = o
    /\ cl' = [IdleCl EXCEPT !.stored = TRUE]
    /\ UNCHANGED <<update_errors, wellness_phase, last_update, tick, cyc, returned,
                   faults, failStreak>>
    /\ UNCHANGED <<clientVars, pageVars, rateVars, derivedVars, entryVars>>

\* variant: the last n entries are kept
KeepLast(list, n) == IF Len(list) <= n THEN list ELSE SubSeq(list, Len(list) - n + 1, Len(list))

\* list[:n]
Keep(list, n) == IF Len(list) <= n THEN list ELSE SubSeq(list, 1, n)

\* coordinator.py:610-626: async_cleanup_old_data(), called by the daily
\* timer of __init__.py:260-270 whatever the refreshes do
async_cleanup_old_data ==
    /\ cl.passes < MaxPasses
    /\ lists' = [a \in Attrs |-> Keep(lists[a], KeepLimit(a))]
    /\ cl' = [cl EXCEPT !.passes = @ + 1, !.before = lists,
                        !.first = IF cl.passes = 0 THEN lists ELSE @]
    /\ UNCHANGED <<update_errors, wellness_phase, last_update, tick, cyc, outcome,
                   returned, faults, failStreak>>
    /\ UNCHANGED <<clientVars, pageVars, rateVars, derivedVars, entryVars>>

----------------------------------------------------------------------------
(* The webhook handler (oura_full/webhooks.py): a notification is checked,  *)
(* processed, and answered; an accepted one schedules a refresh five        *)
(* seconds later in place of the one that was pending.  Time passes in      *)
(* seconds.                                                                 *)

\* webhooks.py:22-39
WEBHOOK_EVENTS ==
    ("create.daily_sleep" :> "sleep_data_updated")
      @@ ("update.daily_sleep" :> "sleep_data_updated")
      @@ ("create.daily_readiness" :> "readiness_data_updated")
      @@ ("update.daily_readiness" :> "readiness_data_updated")
      @@ ("create.daily_activity" :> "activity_data_updated")
      @@ ("update.daily_activity" :> "activity_data_updated")
      @@ ("create.workout" :> "workout_created")
      @@ ("update.workout" :> "workout_updated")
      @@ ("create.session" :> "session_created")
      @@ ("update.session" :> "session_updated")
      @@ ("create.tag" :> "tag_created")
      @@ ("update.tag" :> "tag_updated")
      @@ ("create.daily_stress" :> "stress_data_updated")
      @@ ("update.daily_stress" :> "stress_data_updated")
      @@ ("create.daily_spo2" :> "spo2_data_updated")
      @@ ("update.daily_spo2" :> "spo2_data_updated")

\* None among the strings of a payload (dict.get of a missing key)
NoneStr == "None"

\* the payload's data: an object with a score and a temperature deviation (in
\* tenths of a degree), or a JSON list
DataV(score, temperature_deviation) ==
    [kind |-> "dict", score |-> score, temperature_deviation |-> temperature_deviation]

ListData == [kind |-> "list", score |-> NullV, temperature_deviation |-> NullV]

\* the notifications that arrive, each one a change of a plain one: for the
\* account, for another user, or without a user id; with a handled event
\* type, an unhandled one, or none; with each kind of data; signed rightly or
\* wrongly; one body that is no JSON and one that is a JSON list
Payloads ==
    LET plain == [body |-> "object", signature |-> "absent", user_id |-> "user-1",
                  event_type |-> "create.daily_sleep", data_type |-> "daily_sleep",
                  data |-> DataV(IntV(55), NullV)]
    IN  {[plain EXCEPT !.user_id = u, !.event_type = e] :
            u \in {"user-1", "user-2", NoneStr},
            e \in {"create.daily_sleep", "update.daily_readiness", "delete.daily_sleep",
                   NoneStr}}
        \cup {[plain EXCEPT !.data_type = d, !.data = x] :
                d \in {"daily_sleep", "daily_readiness", "daily_stress", "workout",
                       "heartrate"},
                x \in {DataV(IntV(55), NullV), DataV(IntV(90), IntV(-8)), ListData}}
        \cup {[plain EXCEPT !.signature = g] : g \in {"valid", "invalid"}}
        \cup {[plain EXCEPT !.body = g] : g \in {"garbage", "array"}}

\* the coordinator's notification_preference when a notification arrives
\* (select.py:51, 218-221; 'all' when never set)
Preferences == {"all", "critical"}

\* webhooks.py:180-208: no signature header passes; a signed request passes
\* when the digest of the body under the handler's secret matches
VerifySignature(signature) == signature \in {"absent", "valid"}

\* variant: the user id of the payload is not looked at
ForAnyUser(user_id, account) == TRUE

\* webhooks.py:222: user_id != self.coordinator.user_info.get('id')
ForOurUser(user_id, account) == user_id = account

\* the event each data type's handler fires (webhooks.py:255-272)
DataEvents ==
    [daily_sleep |-> "sleep_updated", daily_readiness |-> "readiness_updated",
     daily_activity |-> "activity_updated", workout |-> "workout_updated",
     session |-> "session_updated", tag |-> "tag_updated",
     daily_stress |-> "stress_updated", daily_spo2 |-> "spo2_updated"]

Abs(x) == IF x < 0 THEN -x ELSE x

\* webhooks.py:290-295, 315-326, 400-404: the alerts of a data update (the
\* stress score is the one of the day summary)
Alerts(data_type, data) ==
    CASE data_type = "daily_sleep" ->
            IF TruthyV(data.score) /\ data.score.v < 70
            THEN <<"Poor Sleep Alert">> ELSE <<>>
      [] data_type = "daily_readiness" ->
            (IF TruthyV(data.score) /\ data.score.v < 60
             THEN <<"Low Readiness Alert">> ELSE <<>>)
            \o (IF TruthyV(data.temperature_deviation)
                    /\ Abs(data.temperature_deviation.v) > 5
                THEN <<"Temperature Alert">> ELSE <<>>)
      [] data_type = "daily_stress" ->
            IF TruthyV(data.score) /\ data.score.v > 70
            THEN <<"High Stress Alert">> ELSE <<>>
      [] OTHER -> <<>>

\* webhooks.py:253-417: _handle_data_update(data_type, data): the event fired
\* and the alerts; data.get raises when the data is no object
DataUpdate(data_type, data) ==
    IF data_type \notin DOMAIN DataEvents
    THEN [raised |-> FALSE, events |-> <<>>, alerts |-> <<>>]
    ELSE IF data.kind # "dict"
    THEN [raised |-> TRUE, events |-> <<>>, alerts |-> <<>>]
    ELSE [raised |-> FALSE, events |-> <<DataEvents[data_type]>>,
          alerts |-> Alerts(data_type, data)]

\* nothing fired, nothing created, no refresh scheduled
Ignored(status) ==
    [status |-> status, events |-> <<>>, notifications |-> <<>>, scheduled |-> FALSE]

\* webhooks.py:232-251, 434-448: the data update, then the webhook_received
\* event and the refresh; an exception of the data update ends the processing
Accepted(u, preference) ==
    IF u.raised THEN Ignored(200)
    ELSE [status |-> 200, events |-> Append(u.events, "webhook_received"),
          notifications |-> IF preference \in {"all", "important"} THEN u.alerts ELSE <<>>,
          scheduled |-> TRUE]

\* webhooks.py:210-251: _process_webhook_event(payload); payload.get raises
\* on a payload that is no object, and every exception is swallowed
process_webhook_event(payload, account, preference) ==
    IF payload.body # "object" THEN Ignored(200)
    ELSE IF ~ForOurUser(payload.user_id, account) THEN Ignored(200)
    ELSE IF payload.event_type \notin DOMAIN WEBHOOK_EVENTS THEN Ignored(200)
    ELSE Accepted(DataUpdate(payload.data_type, payload.data), preference)

\* webhooks.py:146-178: the response to a request and what it set off
HandleWebhook(payload, account, preference) ==
    IF ~VerifySignature(payload.signature) THEN Ignored(401)
    ELSE IF payload.body = "garbage" THEN Ignored(400)
    ELSE process_webhook_event(payload, account, preference)

\* webhooks.py:425: asyncio.sleep(5)
REFRESH_DELAY == 5

\* notifications per run
MaxNotifications == 3

\* no _refresh_task attribute yet; a task carries the number of the
\* notification that created it
NoTask == [pc |-> "none", slept |-> 0, id |-> 0]

\* variant: a refresh that is pending is kept, not replaced
ScheduleKeepingPending(task, id) ==
    IF task.pc = "sleeping" THEN task ELSE [pc |-> "sleeping", slept |-> 0, id |-> id]

\* webhooks.py:424-432: the pending task is cancelled and a new
\* delayed_refresh() task takes its place
Schedule(task, id) == [pc |-> "sleeping", slept |-> 0, id |-> id]

\* webhooks.py:429: hasattr(self, '_refresh_task') and not self._refresh_task.done()
NotDone(task) == task.pc \in {"sleeping", "refreshing"}

IdleWh ==
    [registered |-> FALSE, account |-> "user-1", task |-> NoTask, n |-> 0,
     payload |-> NoneVal, last |-> Ignored(0), before |-> NoTask,
     since |-> REFRESH_DELAY + 1, requests |-> 0, issued_after |-> 0,
     interrupted |-> FALSE, late |-> FALSE]

\* webhooks.py:54-81: async_setup(): the webhook is registered
webhook_async_setup ==
    /\ ~wh.registered
    /\ wh' = [wh EXCEPT !.registered = TRUE]
    /\ UNCHANGED notWebhookVars

\* the handler's state after a request that set off r; history: the request,
\* the task it found, the seconds since the last accepted notification, the
\* refresh requests since then, whether a refresh in flight was cancelled,
\* and whether a refresh was requested after the entry's unload
Received(payload, r) ==
    [wh EXCEPT !.n = @ + 1, !.payload = payload, !.last = r, !.before = wh.task,
               !.task = IF r.scheduled THEN Schedule(@, wh.n + 1) ELSE @,
               !.since = IF r.scheduled THEN 0 ELSE @,
               !.requests = IF r.scheduled THEN 0 ELSE @,
               !.interrupted = @ \/ (r.scheduled /\ NotDone(wh.task)
                                       /\ wh.task.pc = "refreshing")]

\* webhooks.py:146-178, 210-251, 419-432: a request arrives at the webhook
handle_webhook(payload, preference) ==
    /\ wh.registered
    /\ wh.n < MaxNotifications
    /\ wh' = Received(payload, HandleWebhook(payload, wh.account, preference))
    /\ UNCHANGED notWebhookVars

\* webhooks.py:424-426: the sleep of the pending task is over: it requests
\* the refresh (coordinator.async_request_refresh()) and awaits it
delayed_refresh ==
    /\ wh.task.pc = "sleeping"
    /\ wh.task.slept = REFRESH_DELAY
    /\ wh' = [wh EXCEPT !.task.pc = "refreshing", !.requests = @ + 1,
                        !.issued_after = wh.since,
                        !.late = @ \/ entry.state = "unloaded"]
    /\ UNCHANGED notWebhookVars

\* webhooks.py:426: the awaited refresh returns and the task is done
refresh_returns ==
    /\ wh.task.pc = "refreshing"
    /\ wh' = [wh EXCEPT !.task.pc = "done"]
    /\ UNCHANGED notWebhookVars

\* a second passes; a task whose sleep is over runs first
Tick ==
    /\ ~(wh.task.pc = "sleeping" /\ wh.task.slept = REFRESH_DELAY)
    /\ wh' = [wh EXCEPT !.task.slept = IF wh.task.pc = "sleeping" THEN @ + 1 ELSE @,
                        !.since = IF @ <= REFRESH_DELAY THEN @ + 1 ELSE @]
    /\ UNCHANGED notWebhookVars

----------------------------------------------------------------------------
(* The config entry (oura_full/__init__.py): async_setup_entry and          *)
(* async_unload_entry, the time-interval listeners of the background tasks, *)
(* and the MQTT bridge (oura_full/mqtt_bridge.py).  The first refresh of    *)
(* the setup is taken by its outcome.                                       *)

\* set-up attempts per run
MaxSetups == 2

\* firings of the time-interval listeners per run
MaxFires == 2

\* publications of the periodic task per run
MaxPublishes == 2

\* a user dict by its keys and its id; {} has no keys
User(keys, id) == [keys |-> keys, id |-> id]

NoUser == User({}, NoneStr)

\* the JSON of v2/usercollection/personal_info: an object, or a list of them
UserInfoBodies ==
    {[kind |-> "dict", items |-> <<u>>] :
        u \in {User({"id", "email"}, "user-1"), User({"email"}, NoneStr), NoUser}}
      \cup {[kind |-> "list", items |-> l] :
              l \in {<<>>, <<User({"id", "email"}, "user-1")>>, <<NoUser>>}}

\* the attempts of the personal_info request
UserInfoAnswerSeqs ==
    {<<Resp(200, {}, b)>> : b \in UserInfoBodies}
      \cup {<<Resp(st, {}, NoneVal)>> : st \in {401, 404, 500}}
      \cup {<<BadJsonAnswer>>, [i \in 1..(MAX_RETRIES + 1) |-> TimeoutAnswer],
            <<TimeoutAnswer, Resp(200, {}, [kind |-> "dict",
                                            items |-> <<User({"id", "email"}, "user-1")>>])>>}

\* api.py:170-176: the user data of a response
UserOf(response) ==
    IF "none" \in DOMAIN response THEN NoUser
    ELSE IF response.kind = "list" /\ Len(response.items) > 0 THEN response.items[1]
    ELSE IF response.kind = "dict" /\ response.items[1].keys # {} THEN response.items[1]
    ELSE NoUser

\* api.py:166-176: get_user_info() on what _request did
get_user_info(h) ==
    IF h.ctl = "raise" THEN [exc |-> TRUE, msg |-> h.msg, user |-> NoUser]
    ELSE [exc |-> FALSE, msg |-> NoError, user |-> UserOf(h.value)]

\* entry.options: CONF_ENABLE_WEBHOOKS, CONF_ENABLE_MQTT_BRIDGE,
\* CONF_ENABLE_AI_INSIGHTS
Options == [webhooks : BOOLEAN, mqtt : BOOLEAN, ai : BOOLEAN]

IdleEntry ==
    [state |-> "not_loaded", setups |-> 0,
     options |-> [webhooks |-> FALSE, mqtt |-> FALSE, ai |-> FALSE],
     info |-> [exc |-> FALSE, msg |-> NoError, user |-> NoUser],
     coordinator |-> FALSE, first_refresh |-> FALSE, stored |-> FALSE,
     unsub_listeners |-> {}, timers |-> {}, services |-> "none",
     unregistered |-> 0, unload_ok |-> FALSE, fires |-> 0]

IdleMq == [active |-> FALSE, listeners |-> 0, loop |-> "none", publishes |-> 0,
           late |-> FALSE]

\* variant: only an exception of get_user_info stops the setup
NotReadyOnRaise(info) == info.exc

\* __init__.py:82-88: get_user_info raised, or `not user_info`
NotReady(info) == info.exc \/ info.user.keys = {}

\* __init__.py:228-270: the time-interval listeners of the background tasks
BackgroundTasks(options) ==
    {"calculate_trends", "cleanup_old_data"}
      \cup (IF options.ai THEN {"generate_insights"} ELSE {})

\* OuraServices.async_register_services(): the services are registered
async_register_services(services) == "registered"

\* OuraServices.async_unregister_services(): the services are removed
async_unregister_services(services) == "unregistered"

\* __init__.py:68-139: the entry after async_setup_entry, given the user
\* info and how the first refresh ended; the setup is left by
\* ConfigEntryNotReady, by the exception of the first refresh, or by the
\* KeyError of user_info["id"] (line 177)
SetUp(options, info, refresh) ==
    IF NotReady(info)
    THEN [entry EXCEPT !.setups = @ + 1, !.options = options, !.info = info,
                       !.state = "setup_retry", !.coordinator = FALSE,
                       !.first_refresh = FALSE]
    ELSE IF refresh # "success"
    THEN [entry EXCEPT !.setups = @ + 1, !.options = options, !.info = info,
                       !.state = IF refresh = "auth_failed" THEN "setup_error"
                                 ELSE "setup_retry",
                       !.coordinator = TRUE, !.first_refresh = TRUE]
    ELSE IF "id" \notin info.user.keys
    THEN [entry EXCEPT !.setups = @ + 1, !.options = options, !.info = info,
                       !.state = "setup_error", !.coordinator = TRUE,
                       !.first_refresh = TRUE, !.stored = TRUE]
    ELSE [entry EXCEPT !.setups = @ + 1, !.options = options, !.info = info,
                       !.state = "loaded", !.coordinator = TRUE,
                       !.first_refresh = TRUE, !.stored = TRUE,
                       !.services = async_register_services(@),
                       !.unsub_listeners = BackgroundTasks(options),
                       !.timers = BackgroundTasks(options)]

\* mqtt_bridge.py:32-54: async_setup(): without the mqtt service nothing is
\* started; with it the state listeners, the periodic task and _active
BridgeSetUp(has_mqtt) ==
    IF has_mqtt
    THEN [mq EXCEPT !.active = TRUE, !.listeners = 2, !.loop = "sleeping"]
    ELSE mq

\* __init__.py:68-139: async_setup_entry(hass, entry)
async_setup_entry(answers, options, refresh, has_mqtt) ==
    /\ entry.state \in {"not_loaded", "setup_retry"}
    /\ entry.setups < MaxSetups
    /\ entry' = SetUp(options, get_user_info(Run(answers, 1, 0)), refresh)
    /\ wh' = IF entry'.state = "loaded" /\ options.webhooks
             THEN [wh EXCEPT !.registered = TRUE, !.account = entry'.info.user.id]
             ELSE wh
    /\ mq' = IF entry'.state = "loaded" /\ options.mqtt THEN BridgeSetUp(has_mqtt) ELSE mq
    /\ enable_ai' = IF entry'.coordinator THEN options.ai ELSE enable_ai
    /\ UNCHANGED <<circadian_alignment, trends, predictions, dm>>
    /\ UNCHANGED <<clientVars, coordVars, pageVars, rateVars, cleanupVars>>

\* variant: the entry's data is removed whatever the platforms did
PopAlways(stored, unload_ok) == FALSE

\* __init__.py:155-156: hass.data[DOMAIN].pop(entry.entry_id) if unload_ok
Pop(stored, unload_ok) == IF unload_ok THEN FALSE ELSE stored

\* __init__.py:142-158: async_unload_entry(hass, entry), the platforms
\* unloading or not
async_unload_entry(unload_ok) ==
    /\ entry.state = "loaded"
    /\ entry' = [entry EXCEPT !.timers = @ \ entry.unsub_listeners,
                              !.services = IF @ # "none"
                                           THEN async_unregister_services(@) ELSE @,
                              !.unregistered = IF entry.services # "none"
                                               THEN @ + 1 ELSE @,
                              !.stored = Pop(@, unload_ok),
                              !.unload_ok = unload_ok,
                              !.state = IF unload_ok THEN "unloaded" ELSE "failed_unload"]
    /\ UNCHANGED <<wh, mq>>
    /\ UNCHANGED <<clientVars, coordVars, pageVars, rateVars, derivedVars, cleanupVars>>

\* __init__.py:235-270: a time-interval listener that is still registered
\* fires: the trends are computed, or the lists trimmed (the insights leave
\* the state of the model alone)
time_interval_fires(name) ==
    /\ name \in entry.timers
    /\ entry.fires < MaxFires
    /\ entry' = [entry EXCEPT !.fires = @ + 1]
    /\ trends' = IF name = "calculate_trends" THEN async_calculate_trends(lists) ELSE trends
    /\ lists' = IF name = "cleanup_old_data"
                THEN [a \in Attrs |-> Keep(lists[a], KeepLimit(a))] ELSE lists
    /\ UNCHANGED <<update_errors, wellness_phase, last_update, tick, cyc, outcome,
                   returned, faults, failStreak>>
    /\ UNCHANGED <<circadian_alignment, predictions, enable_ai, dm>>
    /\ UNCHANGED <<clientVars, pageVars, rateVars, cleanupVars, wh, mq>>

\* mqtt_bridge.py:360-370: the periodic task wakes after its 300 seconds:
\* it publishes if the bridge is active, and ends when it is not
periodic_publish ==
    /\ mq.loop = "sleeping"
    /\ mq.publishes < MaxPublishes
    /\ mq' = IF mq.active
             THEN [mq EXCEPT !.publishes = @ + 1,
                             !.late = @ \/ entry.state = "unloaded"]
             ELSE [mq EXCEPT !.loop = "ended"]
    /\ UNCHANGED <<wh, entry>>
    /\ UNCHANGED <<clientVars, coordVars, pageVars, rateVars, derivedVars, cleanupVars>>

----------------------------------------------------------------------------
(* The entities (oura_full/entity.py).                                      *)

\* None among the values of last_update; the constructor and the refresh
\* never assign it
NoStamp == -1

\* entity.py:44-47: OuraEntityBase.available
available == last_update # NoStamp

----------------------------------------------------------------------------
Init ==
    /\ now = 0
    /\ cache = EmptyDict
    /\ cache_expiry = EmptyDict
    /\ rq = IdleRq
    /\ okAt = EmptyDict
    /\ okBody = EmptyDict
    /\ lists = [a \in Attrs |-> <<>>]
    /\ update_errors = 0
    /\ wellness_phase = "maintenance"
    /\ last_update = 0
    /\ tick = 0
    /\ cyc = IdleCycle
    /\ outcome = "none"
    /\ returned = EmptyDict
    /\ faults = 0
    /\ failStreak = 0
    /\ pg = IdlePg
    /\ rate_limit_remaining = INITIAL_REMAINING
    /\ rate_limit_reset = 0
    /\ rl = IdleRl
    /\ circadian_alignment = EmptyDict
    /\ trends = EmptyDict
    /\ predictions = EmptyDict
    /\ enable_ai = FALSE
    /\ dm = IdleDm
    /\ cl = IdleCl
    /\ wh = IdleWh
    /\ entry = IdleEntry
    /\ mq = IdleMq

\* the API client alone
NextClient ==
    \/ \E k \in Keys : Call(k)
    \/ \E a \in Answers : Respond(a)
    \/ clear_cache
    \/ \E d \in Steps : Advance(d)

SpecClient == Init /\ [][NextClient]_vars

\* the coordinator's polls
Next ==
    \/ StartUpdate
    \/ fetch_sleep_data
    \/ fetch_readiness_data
    \/ fetch_activity_data
    \/ fetch_heart_rate_data
    \/ fetch_stress_data
    \/ fetch_workout_data
    \/ fetch_spo2_data
    \/ fetch_temperature_data
    \/ FinishUpdate

Spec == Init /\ [][Next]_vars

\* one paginated fetch after another
NextPages ==
    \/ \E srv \in Servers : PaginatedCall(srv)
    \/ FetchPage

SpecPages == Init /\ [][NextPages]_vars

\* the rate-limit check of one request after another
NextRate ==
    \/ \E gap \in Gaps : RateRequest(gap)
    \/ \E headers \in RateHeaders : RateRespond(headers)
    \/ RateTimeout

SpecRate == Init /\ [][NextRate]_vars

\* the derived metrics of a refreshed data set; a later refresh and the
\* switch after a refresh are followed for the data sets of the predictions
NextDerived ==
    \/ dm.pc = "idle" /\ \E data \in DerivedInputs : Refreshed(data)
    \/ /\ dm.pc = "derived" /\ dm.round < MaxRounds /\ dm.data \in PredictionInputs
       /\ \E data \in LaterInputs : Refreshed(data)
    \/ calculate_derived_metrics
    \/ /\ dm.pc = "idle" \/ (dm.pc = "derived" /\ dm.data \in PredictionInputs)
       /\ \E enabled \in BOOLEAN : handle_ai_insights(enabled)

SpecDerived == Init /\ [][NextDerived]_vars

\* the cleanup timer against the lists the refreshes have left
NextCleanup ==
    \/ /\ ~cl.stored
       /\ \E sizes \in [Attrs -> 0..3], o \in {"success", "update_failed", "auth_failed"} :
            StoredBy(sizes, o)
    \/ async_cleanup_old_data

SpecCleanup == Init /\ [][NextCleanup]_vars

\* the webhook handler: notifications, the clock and the refresh task
NextWebhook ==
    \/ webhook_async_setup
    \/ /\ wh.registered /\ wh.n < MaxNotifications
       /\ \E payload \in Payloads, preference \in Preferences :
            handle_webhook(payload, preference)
    \/ delayed_refresh
    \/ refresh_returns
    \/ Tick

SpecWebhook == Init /\ [][NextWebhook]_vars

\* the event loop runs a task whose sleep is over, and time does not stop
SpecWebhookLive ==
    SpecWebhook /\ WF_vars(delayed_refresh) /\ WF_vars(Tick)

\* the notifications followed through the entry's life
EntryPayloads ==
    {p \in Payloads : /\ p.body = "object" /\ p.signature = "absent"
                      /\ p.event_type = "create.daily_sleep"
                      /\ p.user_id \in {"user-1", "user-2"}
                      /\ p.data_type = "daily_sleep"
                      /\ p.data = DataV(IntV(55), NullV)}

\* the config entry: set-up attempts, the unload, and what runs in the
\* background of a set-up entry
NextEntry ==
    \/ /\ entry.state \in {"not_loaded", "setup_retry"} /\ entry.setups < MaxSetups
       /\ \E answers \in UserInfoAnswerSeqs, options \in Options,
             refresh \in {"success", "update_failed", "auth_failed"}, has_mqtt \in BOOLEAN :
            async_setup_entry(answers, options, refresh, has_mqtt)
    \/ \E unload_ok \in BOOLEAN : async_unload_entry(unload_ok)
    \/ \E name \in {"calculate_trends", "cleanup_old_data", "generate_insights"} :
            time_interval_fires(name)
    \/ periodic_publish
    \/ /\ wh.registered /\ wh.n < MaxNotifications
       /\ \E payload \in EntryPayloads : handle_webhook(payload, "all")
    \/ delayed_refresh
    \/ refresh_returns
    \/ Tick

SpecEntry == Init /\ [][NextEntry]_vars

----------------------------------------------------------------------------
(* Properties of the refresh cycle (Spec).                                 *)

\* a call of _async_update_data has returned or raised
Finished == cyc.pc = "idle" /\ outcome # "none"

StoredKeys == DOMAIN cache_map

\* the fetch of category k raised, and not with an authentication failure
FailedTransient(k) == cyc.results[k].exc /\ ~IsAuthError(cyc.results[k].msg)

\* k is the one category whose fetch raised
OnlyFailure(k) ==
    /\ FailedTransient(k)
    /\ \A c \in Categories \ {k} : ~cyc.results[c].exc

\* the payloads follow the API's schema: a score is a number or null
ScoresNumeric ==
    \A a \in {"sleep_data", "readiness_data", "activity_data"} :
        \A i \in 1..Len(lists[a]) : lists[a][i].score.kind # "str"

\* C1: when exactly one category's fetch fails with a non-authentication
\* error and every other fetch succeeds, the failed category keeps the list
\* stored before the cycle and every other stored category holds its newly
\* fetched list; with payloads that follow the schema the cycle succeeds and
\* returns exactly those lists.
C1_PartialFailureFallsBack ==
    \A k \in StoredKeys :
        (Finished /\ OnlyFailure(k)) =>
            /\ lists[cache_map[k]] = cyc.prev[cache_map[k]]
            /\ \A c \in StoredKeys \ {k} : lists[cache_map[c]] = cyc.results[c].value
            /\ ScoresNumeric =>
                  /\ outcome = "success"
                  /\ returned[k] = cyc.prev[cache_map[k]]
                  /\ \A c \in Categories \ {k} : returned[c] = cyc.results[c].value

C1_Witness ==
    /\ Finished
    /\ OnlyFailure("activity")
    /\ outcome = "success"
    /\ cyc.prev["activity_data"] # <<>>
    /\ returned["activity"] = cyc.prev["activity_data"]
    /\ lists["sleep_data"] # cyc.prev["sleep_data"]

\* C2: (as stated) whenever the request of any category is answered 401, the
\* whole cycle ends with an authentication failure.
C2_Any401FailsTheCycle ==
    (Finished /\ \E k \in Categories :
                    \E i \in 1..Len(cyc.statuses[k]) : cyc.statuses[k][i] = 401)
        => outcome = "auth_failed"

\* C3: (as stated) a cycle that ends with an authentication failure has
\* changed none of the stored lists.
C3_AuthFailureMutatesNothing ==
    (Finished /\ outcome = "auth_failed") => lists = cyc.prev

\* C4: (as stated) between cycles the error counter is the number of
\* consecutive failed updates.
C4_CounterCountsConsecutiveFailures ==
    cyc.pc = "idle" => update_errors = failStreak

\* every request the fetch of k made was answered, and the first had no data
NoData(k) ==
    /\ Len(cyc.statuses[k]) >= 1
    /\ cyc.statuses[k][1] = 404
    /\ \A i \in 1..Len(cyc.statuses[k]) : cyc.statuses[k][i] \in {200, 404}

\* C10: a category whose request is answered 404 is fetched without an error
\* and as the empty list; the stored list becomes empty, and unless another
\* category fails authentication (or a payload breaks the schema) the cycle
\* succeeds and returns the empty list for it.
C10_NotFoundIsEmpty ==
    \A k \in Categories :
        (Finished /\ NoData(k)) =>
            /\ ~cyc.results[k].exc
            /\ cyc.results[k].value = <<>>
            /\ k \in StoredKeys => lists[cache_map[k]] = <<>>
            /\ (ScoresNumeric /\ \A c \in Categories : ~IsAuthError(cyc.results[c].msg))
                  => (outcome = "success" /\ returned[k] = <<>>)

C10_Witness ==
    /\ Finished
    /\ NoData("readiness")
    /\ cyc.prev["readiness_data"] # <<>>
    /\ lists["readiness_data"] = <<>>
    /\ outcome = "success"
    /\ returned["readiness"] = <<>>

----------------------------------------------------------------------------
(* Properties of the API client (SpecClient).                              *)

Done == rq.pc \in {"returned", "raised"}

OtherKey(k) == CHOOSE o \in Keys : o # k

\* C5: a fetch made less than 5 minutes after a 2xx answer for the same key
\* (with no clear_cache() in between) issues no network call and returns the
\* response the first fetch returned.
C5_SecondFetchFromCache ==
    (rq.pc # "idle" /\ rq.fresh) =>
        /\ rq.pc = "returned"
        /\ rq.calls = 0
        /\ rq.result = rq.expect

C5_Witness ==
    /\ rq.pc = "returned"
    /\ rq.fresh
    /\ rq.calls = 0
    /\ rq.key \in DOMAIN okAt
    /\ now - okAt[rq.key] = 240
    /\ rq.result \in Bodies

\* C6: a request is answered without a network call only if a 2xx answer for
\* its key was received less than 5 minutes earlier with no clear_cache()
\* since; every cache entry is the body of the last 2xx answer for its key
\* and expires 5 minutes after it, so no other answer creates an entry.
C6_HitOnlyAfterRecentSuccess ==
    /\ (Done /\ rq.calls = 0) => (rq.pc = "returned" /\ rq.fresh)
    /\ \A k \in DOMAIN cache :
          /\ k \in DOMAIN okAt
          /\ cache[k] = okBody[k]
          /\ k \in DOMAIN cache_expiry
          /\ cache_expiry[k] = okAt[k] + CACHE_TTL

C6_Witness ==
    /\ rq.pc = "returned"
    /\ rq.calls = 0
    /\ OtherKey(rq.key) \in DOMAIN cache
    /\ cache_expiry[OtherKey(rq.key)] <= now
    /\ cache[OtherKey(rq.key)] # rq.result

\* the wait before the retry that follows a 429
C7_WaitsRetryAfter ==
    (rq.pc = "wait" /\ rq'.pc = "wait" /\ rq'.retries = rq.retries + 1
        /\ rq'.last.status = 429)
      => now' - now = IF \E h \in rq'.last.headers : h[1] = "Retry-After"
                      THEN 120 ELSE 60

C7_RetryCap ==
    /\ rq.retries <= 3
    /\ (Done /\ rq.last.status = 429) =>
          /\ rq.pc = "raised"
          /\ rq.error = MsgRateLimit
          /\ rq.retries = 3
          /\ rq.calls = 4
    /\ (Done /\ rq.calls > 0 /\ rq.last \in {Resp(200, {}, b) : b \in Bodies}) =>
          /\ rq.pc = "returned"
          /\ rq.result = rq.last.body

\* C7: before the retry that follows a 429 the client waits the Retry-After
\* seconds of that answer (60 without the header); a request is retried at
\* most 3 times; when the last attempt is answered 429 too the request raises
\* the rate-limit error after 3 retries, and a 2xx answer on any attempt is
\* the request's result.
C7_RateLimitRetries == []C7_RetryCap /\ [][C7_WaitsRetryAfter]_vars

C7_Witness ==
    /\ rq.pc = "raised"
    /\ rq.error = MsgRateLimit
    /\ rq.seen = {"429"}
    /\ rq.calls = 4

\* an answer ends the request or uses up one retry
C8_AnswerEndsOrCounts ==
    (rq.pc = "wait" /\ rq' # rq) =>
        \/ rq'.pc \in {"returned", "raised"}
        \/ rq'.pc = "wait" /\ rq'.retries = rq.retries + 1 /\ rq'.calls = rq.calls + 1

C8_AttemptCap ==
    /\ rq.retries <= MAX_RETRIES
    /\ rq.calls <= MAX_RETRIES + 1
    /\ (Done /\ rq.last.timeout) =>
          /\ rq.pc = "raised"
          /\ rq.error = MsgTimeout
          /\ rq.calls = MAX_RETRIES + 1

\* C8: over any mix of timeouts and 429 answers a request makes at most 3
\* retries and 4 network attempts; when the last attempt timed out it raises
\* the timeout error; every answer either ends the request or uses up one of
\* the retries, so the request ends after at most 4 answers.
C8_TimeoutRetries == []C8_AttemptCap /\ [][C8_AnswerEndsOrCounts]_vars

C8_Witness ==
    /\ rq.pc = "raised"
    /\ rq.error = MsgTimeout
    /\ rq.seen = {"429", "timeout"}
    /\ rq.calls = 4

\* C9: a 401 answer ends the request at once, whatever the retries so far,
\* with the authentication error; that error is recognised as an
\* authentication failure, the timeout and rate-limit errors are not; the
\* answer leaves no cache entry.
C9_UnauthorizedIsFinal ==
    /\ (rq.pc # "idle" /\ rq.last.status = 401) =>
          /\ rq.pc = "raised"
          /\ rq.error = MsgAuth
          /\ IsAuthError(rq.error)
          /\ rq.calls = rq.retries + 1
          /\ rq.key \in DOMAIN cache => cache[rq.key] \in Bodies
    /\ (rq.pc = "raised" /\ (rq.last.timeout \/ rq.last.status = 429)) =>
          /\ rq.error \in {MsgTimeout, MsgRateLimit}
          /\ ~IsAuthError(rq.error)

C9_Witness ==
    /\ rq.pc = "raised"
    /\ rq.last.status = 401
    /\ rq.retries = 2
    /\ rq.seen = {"429", "timeout"}
    /\ IsAuthError(rq.error)

----------------------------------------------------------------------------
(* Properties of the paginated fetch (SpecPages).                          *)

\* the first page of the server that carries no cursor
LastPage(srv) == CHOOSE n \in 1..Len(srv) :
    /\ "next_token" \notin DOMAIN srv[n]
    /\ \A i \in 1..(n - 1) : "next_token" \in DOMAIN srv[i]

RECURSIVE ConcatPages(_, _)
\* the items of pages 1..n in server order
ConcatPages(srv, n) == IF n = 0 THEN <<>> ELSE ConcatPages(srv, n - 1) \o srv[n].data

\* C11: request k of a paginated fetch carries the cursor of response k - 1
\* (the first carries none), the items gathered after k responses are those
\* of pages 1..k in server order, and the fetch ends exactly after the first
\* page without a cursor, returning the concatenation of the pages up to it.
C11_PagesInOrder ==
    pg.pc # "idle" =>
        /\ Len(pg.sent) <= LastPage(pg.server)
        /\ \A k \in 1..Len(pg.sent) :
              pg.sent[k] = IF k = 1 THEN "" ELSE pg.server[k - 1].next_token
        /\ pg.all_data = ConcatPages(pg.server, Len(pg.sent))
        /\ (pg.pc = "done") <=> (Len(pg.sent) = LastPage(pg.server))

C11_Witness ==
    /\ pg.pc = "done"
    /\ LastPage(pg.server) = 3
    /\ pg.sent = <<"", "t1", "t2">>
    /\ pg.all_data = <<11, 12, 21, 31, 32>>

----------------------------------------------------------------------------
(* Properties of the rate-limit check (SpecRate).                          *)

HasHeader(headers, name) == \E h \in headers : h[1] = name

\* C12: (as stated) a request entered with a tracked counter of 5 or less
\* waits reset - now seconds when the tracked reset time is in the future and
\* not at all when it has passed; with a counter above 5 it does not wait;
\* a response without a rate-limit header leaves the tracked value as it was.
C12_WaitsUntilReset ==
    /\ rl.pc = "sent" =>
          rl.waited = IF rl.remaining <= 5 /\ rl.reset > rl.at
                      THEN rl.reset - rl.at
                      ELSE 0
    /\ (rl.pc = "idle" /\ rl.n > 0) =>
          /\ ~HasHeader(rl.headers, "X-RateLimit-Remaining")
                => rate_limit_remaining = rl.remaining
          /\ ~HasHeader(rl.headers, "X-RateLimit-Reset")
                => rate_limit_reset = rl.reset

----------------------------------------------------------------------------
(* Wellness phase.                                                         *)

\* the scores of the first 7 records, absent scores skipped
PresentScores(records) ==
    LET n == IF Len(records) < 7 THEN Len(records) ELSE 7
        present(x) == x.kind # "none"
    IN  SelectSeq([i \in 1..n |-> records[i].score], present)

\* the scores of the first 7 records, absent scores and scores of 0 skipped
CountedScores(records) ==
    LET counted(x) == x.v # 0
    IN  SelectSeq(PresentScores(records), counted)

RECURSIVE Total(_)
Total(scores) == IF scores = <<>> THEN 0 ELSE Head(scores).v + Total(Tail(scores))

\* the average of the scores (0 when there are none) is below / above c
Below(scores, c) == IF scores = <<>> THEN 0 < c ELSE Total(scores) < c * Len(scores)
Above(scores, c) == IF scores = <<>> THEN 0 > c ELSE Total(scores) > c * Len(scores)

\* the ordered rule over the three averages
RulePhase(rr, rs, ra) ==
    IF Below(rr, 60) \/ Below(rs, 60) THEN "recovery"
    ELSE IF Above(rr, 85) /\ Above(rs, 80) /\ Above(ra, 75) THEN "peak"
    ELSE IF Above(rr, 75) /\ Above(rs, 70) THEN "challenge"
    ELSE "maintenance"

----------------------------------------------------------------------------
(* Circadian alignment.                                                    *)

\* the number of records among the first 14 that have all of the fields
CountNights(sleep, fields) ==
    Cardinality({i \in 1..(IF Len(sleep) < 14 THEN Len(sleep) ELSE 14) :
                    \A f \in fields : sleep[i][f] # NullV})

IsDefaultAlignment(c) ==
    c.aligned = FALSE /\ c.score = 0 /\ c.optimal_bedtime = [h |-> 22, m |-> 0]

\* C15 as stated: with fewer than 3 records among the first 14 sleep records
\* that have both a bedtime start and a bedtime end, the circadian alignment
\* is aligned=false, score=0, optimal_bedtime "22:00"; a record with a bedtime
\* start but no bedtime end does not count toward the 3.
C15_FewQualifyingIsDefault ==
    (dm.pc = "derived" /\ CountNights(dm.data.sleep, {"bedtime_start", "bedtime_end"}) < 3)
        => IsDefaultAlignment(circadian_alignment)

\* C15 amended: with fewer than 3 records among the first 14 sleep records
\* that have a bedtime start, the circadian alignment is aligned=false,
\* score=0, optimal_bedtime "22:00"; a record with a bedtime start but no
\* bedtime end does count toward the 3: with 3 or more records that have a
\* bedtime start the alignment is computed from the bedtimes.
C15_FewBedtimeStartsIsDefault ==
    dm.pc = "derived" =>
        IF CountNights(dm.data.sleep, {"bedtime_start"}) < 3
        THEN circadian_alignment = CircadianDefault
        ELSE "bedtime_consistency" \in DOMAIN circadian_alignment

\* three complete nights behind 14 nights without bedtimes: none of the first
\* 14 counts
C15_Witness ==
    /\ dm.pc = "derived"
    /\ Len(dm.data.sleep) = 17
    /\ \A i \in 15..17 : dm.data.sleep[i] = SleepData(NullV, TimeV(22, 0), TimeV(7, 0))
    /\ circadian_alignment = CircadianDefault

----------------------------------------------------------------------------
(* Trends.                                                                 *)

TrendCategories == {"sleep", "readiness", "activity"}

TrendRecords(name) == lists[cache_map[name]]

TrendField(name) == IF name = "activity" THEN "steps" ELSE "score"

\* the number of samples (values present and not 0) at positions from..to
SampleCount(records, from, to, field) ==
    Cardinality({i \in from..to :
        i <= Len(records) /\ records[i][field] # NullV /\ records[i][field] # IntV(0)})

\* C16 as stated: the trend map has an entry for a category only if the
\* previous window (positions 8-14) holds a full 7 samples; otherwise the
\* category is omitted.
C16_TrendNeedsFullPreviousWeek ==
    dm.pc = "derived" =>
        \A name \in TrendCategories :
            name \in DOMAIN trends
                => SampleCount(TrendRecords(name), 8, 14, TrendField(name)) = 7

\* C16 amended: the trend map has an entry for a category exactly when the
\* recent window (positions 1-7) and the previous window (positions 8-14)
\* each hold at least one sample, a value that is present and not 0;
\* otherwise the category is omitted.
C16_TrendNeedsOneSampleEach ==
    dm.pc = "derived" =>
        \A name \in TrendCategories :
            name \in DOMAIN trends
                <=> /\ SampleCount(TrendRecords(name), 1, 7, TrendField(name)) >= 1
                    /\ SampleCount(TrendRecords(name), 8, 14, TrendField(name)) >= 1

\* a sleep trend over a previous window of six records without a score and
\* one with
C16_Witness ==
    /\ dm.pc = "derived"
    /\ Len(lists.sleep_data) = 14
    /\ SampleCount(lists.sleep_data, 8, 14, "score") = 1
    /\ "sleep" \in DOMAIN trends
    /\ trends.sleep.direction = "up"

----------------------------------------------------------------------------
(* Predictions.                                                            *)

\* the step in which a refresh computes its derived metrics
DerivesNow == dm.pc = "loaded" /\ dm'.pc = "derived"

\* C17: with AI disabled a refresh never modifies the predictions map; with
\* AI enabled the map is empty unless the readiness, sleep and activity lists
\* each hold a record, and otherwise its recommended_bedtime_adjustment is
\* -30 for a newest readiness score below 70, 0 for one above 85, and -15 for
\* one from 70 to 85.
C17_PredictionsAreGated ==
    [][DerivesNow =>
        IF ~enable_ai THEN predictions' = predictions
        ELSE IF lists.readiness_data = <<>> \/ lists.sleep_data = <<>>
                \/ lists.activity_data = <<>>
        THEN predictions' = EmptyDict
        ELSE lists.readiness_data[1].score # NullV =>
                predictions'.recommended_bedtime_adjustment =
                    IF lists.readiness_data[1].score.v < 70 THEN -30
                    ELSE IF lists.readiness_data[1].score.v > 85 THEN 0
                    ELSE -15]_vars

----------------------------------------------------------------------------
(* Cleanup.                                                                *)

\* the first n entries of list, in order
Leading(list, n) == [i \in 1..n |-> list[i]]

\* C18: after a cleanup pass each list has at most 30 entries (workouts 90),
\* the retained entries are the leading entries of the list in unchanged
\* order, a list within its bound is unchanged, and a second pass changes
\* nothing; the pass can run whatever the outcome of the last refresh.
C18_CleanupKeepsLeadingEntries ==
    /\ cl.passes >= 1 =>
        \A a \in Attrs :
            /\ Len(lists[a]) <= (IF a = "workout_data" THEN 90 ELSE 30)
            /\ Len(lists[a]) <= Len(cl.first[a])
            /\ lists[a] = Leading(cl.first[a], Len(lists[a]))
            /\ Len(cl.first[a]) <= (IF a = "workout_data" THEN 90 ELSE 30)
                    => lists[a] = cl.first[a]
    /\ cl.passes >= 2 => lists = cl.before
    /\ (cl.stored /\ cl.passes < MaxPasses) => ENABLED async_cleanup_old_data

\* a pass after a failed refresh has cut 31 sleep records to the first 30 and
\* 91 workouts to the first 90, has left 30 readiness records alone, and a
\* second pass has run
C18_Witness ==
    /\ cl.passes = 2
    /\ outcome = "update_failed"
    /\ Len(cl.first.sleep_data) = 31 /\ Len(lists.sleep_data) = 30
    /\ Len(cl.first.workout_data) = 91 /\ Len(lists.workout_data) = 90
    /\ Len(cl.first.readiness_data) = 30 /\ Len(lists.readiness_data) = 30
    /\ lists.sleep_data[30].id = 30

----------------------------------------------------------------------------
(* The time of the last successful update.                                 *)

\* the step in which _async_update_data returns or raises
CycleEnds == cyc.pc = "gather" /\ cyc'.pc = "idle"

\* C19: last_update advances exactly in the steps in which a refresh cycle
\* completes successfully, cycles with categories that fell back included; a
\* cycle that ends in ConfigEntryAuthFailed or UpdateFailed, and every other
\* step, leaves it unchanged.
C19_StampAdvancesOnSuccessOnly ==
    [][IF CycleEnds /\ outcome' = "success"
       THEN last_update' > last_update
       ELSE last_update' = last_update]_vars

\* the second cycle has succeeded with a category that fell back
C19_Witness ==
    /\ cyc.pc = "idle"
    /\ tick = 2
    /\ outcome = "success"
    /\ last_update = 2
    /\ failStreak = 0
    /\ \E k \in Categories : cyc.results[k].exc

----------------------------------------------------------------------------
(* Properties of the webhook handler (SpecWebhook).                        *)

\* the event types of the handled event table
HandledEventTypes ==
    {a \o "." \o b : a \in {"create", "update"},
                     b \in {"daily_sleep", "daily_readiness", "daily_activity", "workout",
                            "session", "tag", "daily_stress", "daily_spo2"}}

Fired(name) == \E i \in 1..Len(wh.last.events) : wh.last.events[i] = name

\* C21: a notification schedules a refresh, and fires webhook_received, only
\* if its user id is the configured account's; a notification for another
\* user id, or with an event type outside the handled event table, fires no
\* event, creates no notification, schedules no refresh and leaves the
\* pending refresh task as it was.
C21_OnlyOurUserRefreshes ==
    wh.n > 0 =>
        /\ (wh.last.scheduled \/ Fired("webhook_received"))
              => wh.payload.user_id = wh.account
        /\ (wh.last.status = 200 /\ wh.payload.body = "object"
               /\ (wh.payload.user_id # wh.account
                     \/ wh.payload.event_type \notin HandledEventTypes))
              => /\ wh.last.events = <<>>
                 /\ wh.last.notifications = <<>>
                 /\ ~wh.last.scheduled
                 /\ wh.task.id = wh.before.id

\* a notification for another user, with a handled event type and a sleep
\* score that would raise an alert, has arrived while a refresh was pending
C21_Witness ==
    /\ wh.n = 2
    /\ wh.payload.body = "object"
    /\ wh.payload.user_id = "user-2"
    /\ wh.payload.event_type = "create.daily_sleep"
    /\ wh.payload.data_type = "daily_sleep"
    /\ wh.payload.data = DataV(IntV(55), NullV)
    /\ wh.last = Ignored(200)
    /\ wh.task = [pc |-> "sleeping", slept |-> 2, id |-> 1]
    /\ wh.task = wh.before

\* the refresh requests since the last accepted notification: at most one,
\* issued REFRESH_DELAY seconds after it, and issued by the time more than
\* REFRESH_DELAY seconds have passed
C22_OneRequestAfterTheLast ==
    /\ wh.requests <= 1
    /\ wh.requests = 1 => wh.issued_after = REFRESH_DELAY
    /\ (wh.task.pc # "none" /\ wh.since > REFRESH_DELAY) => wh.requests = 1

C28_RunningRefreshNotAborted == ~wh.interrupted

----------------------------------------------------------------------------
(* Properties of the config entry (SpecEntry).                             *)

\* the last set-up attempt got no user information: the request raised, or
\* the response was None, an empty object, an empty list, or a list whose
\* first element is empty
NoUserInfo == entry.setups > 0 /\ (entry.info.exc \/ entry.info.user = NoUser)

\* C23: when fetching the user information raises or returns nothing, the
\* setup of the entry ends not-ready: no coordinator is created, no first
\* refresh is run and no data of the entry is stored.
C23_NoUserInfoNotReady ==
    NoUserInfo =>
        /\ entry.state = "setup_retry"
        /\ ~entry.coordinator
        /\ ~entry.first_refresh
        /\ ~entry.stored
        /\ entry.timers = {}
        /\ entry.services = "none"
        /\ ~wh.registered
        /\ ~mq.active

\* a set-up attempt was answered with an empty list (get_user_info returns
\* {} without raising) and with every option enabled
C23_Witness ==
    /\ entry.setups = 1
    /\ ~entry.info.exc
    /\ entry.info.user = NoUser
    /\ entry.options = [webhooks |-> TRUE, mqtt |-> TRUE, ai |-> TRUE]
    /\ entry.state = "setup_retry"

\* the entry's unload has run
Unloaded == entry.state \in {"unloaded", "failed_unload"}

\* C24: after the unload of a set-up entry every time-interval listener of
\* its background tasks is cancelled, its services were unregistered exactly
\* once, and the entry's data is gone from the domain store if and only if
\* the platforms unloaded.
C24_UnloadReleases ==
    Unloaded =>
        /\ entry.timers = {}
        /\ entry.unregistered = 1
        /\ entry.services = "unregistered"
        /\ ~entry.stored <=> entry.unload_ok

\* the unload of an entry with all three background tasks ended with the
\* platforms refusing, after a listener had fired
C24_Witness ==
    /\ entry.state = "failed_unload"
    /\ entry.unsub_listeners = {"calculate_trends", "cleanup_old_data", "generate_insights"}
    /\ entry.fires > 0
    /\ entry.timers = {}
    /\ entry.stored

\* C30: after the unload of an entry set up with the MQTT bridge or the
\* webhooks, nothing of it goes on: the bridge is inactive, its periodic task
\* and listeners publish no more, the webhook is not registered and no
\* refresh is requested by a notification.
C30_NothingRunsAfterUnload ==
    entry.state = "unloaded" =>
        /\ ~mq.active
        /\ ~mq.late
        /\ ~wh.registered
        /\ ~wh.late

----------------------------------------------------------------------------
(* Properties of the entities over the refresh cycle (Spec).               *)

\* C25: an entity is unavailable in every state before the first refresh
\* cycle has completed successfully (the coordinator has no data), and
\* available only after a successful update.
C25_UnavailableBeforeFirstSuccess ==
    (tick <= 1 /\ outcome # "success") => ~available

----------------------------------------------------------------------------
(* Properties of a category's fetch (Spec).                                *)

\* one of the requests the fetch of k made ended in an exception: an error
\* status, or a rate limit or timeouts that outlasted the retries
RequestRaised(k) ==
    \E i \in 1..Len(cyc.statuses[k]) : cyc.statuses[k][i] \in {0, 401, 429, 500}

\* C26: a category's stored list is replaced only when every request of its
\* fetch succeeded: when a page of a paginated fetch raises, or the
\* sleep-period request after the daily-sleep request, the fetch raises and
\* the stored list is the one the cycle started with.
C26_FailedFetchKeepsTheList ==
    \A k \in StoredKeys :
        RequestRaised(k) =>
            /\ cyc.results[k].exc
            /\ lists[cache_map[k]] = cyc.prev[cache_map[k]]

\* in the second cycle the readiness fetch got its first page and a 500 for
\* the second, the sleep fetch its daily sleep and a 500 for the sleep
\* periods; both lists are those of the first cycle
C26_Witness ==
    /\ tick = 2
    /\ cyc.statuses["readiness"] = <<200, 500>>
    /\ cyc.statuses["sleep"] = <<200, 500>>
    /\ cyc.prev["readiness_data"] # <<>>
    /\ lists["readiness_data"] = cyc.prev["readiness_data"]
    /\ cyc.prev["sleep_data"] # <<>>
    /\ lists["sleep_data"] = cyc.prev["sleep_data"]

----------------------------------------------------------------------------
(* The derived state against the stored lists (Spec, SpecDerived).         *)

\* the data of the stored readiness, sleep and activity lists
StoredData ==
    [readiness |-> lists["readiness_data"], sleep |-> lists["sleep_data"],
     activity |-> lists["activity_data"]]

\* the phase is the classification of the stored lists, where there is one
PhaseMatches ==
    calculate_wellness_phase(StoredData).ctl = "return"
        => wellness_phase = calculate_wellness_phase(StoredData).value

\* C27: whenever no refresh cycle is in flight, after a cycle that succeeded,
\* fell back, failed or failed authentication, the wellness phase is the
\* classification of the stored readiness, sleep and activity lists, and the
\* circadian snapshot and the trend map are those of the stored lists.
C27_DerivedMatchesLists ==
    Finished =>
        /\ PhaseMatches
        /\ circadian_alignment = calculate_circadian_alignment(StoredData)
        /\ trends = async_calculate_trends(lists)

\* C29: for readiness, sleep and activity scores in 0..100 the predicted
\* readiness of the next day is a readiness score, in 0..100.
C29_PredictedReadinessInRange ==
    (dm.pc = "derived" /\ "tomorrow_readiness" \in DOMAIN predictions)
        => predictions.tomorrow_readiness \in 0..100
====
